---- MODULE Spec2Model ----
(***************************************************************************)
(* Verification model of code-health: the provider layer (commit fetch),   *)
(* the run orchestration of src/main.py, and the report renderers.         *)
(***************************************************************************)
EXTENDS Integers, Sequences, FiniteSets, TLC

(***************************************************************************)
(* Bounds of the model.                                                    *)
(***************************************************************************)
\* Number of distinct commits (hashes) the upstream repository holds.
NumCommits == 3
\* Number of branches of the upstream repository; branch 1 is "master".
NumBranches == 2
\* Page size of an upstream listing (perPage=100 in the code, scaled down).
PerPage == 2
\* Days range over 0..MaxDay; a timestamp is a day and a slot within the day.
MaxDay == 2
SlotsPerDay == 2
\* Page cap of _get_commits_single_branch and _api_request_list.
MaxPages == 10

Hashes == 1..NumCommits
Branches == 1..NumBranches
Days == 0..MaxDay
Instants == 0..((MaxDay + 1) * SlotsPerDay - 1)

\* commit.date[:10]: the calendar day of a "YYYY-MM-DD HH:MM:SS" timestamp.
Day(t) == t \div SlotsPerDay
\* "YYYY-MM-DD" read as an instant: midnight of that day.
DayStart(d) == d * SlotsPerDay

\* The branch argument of get_commits: "all", a branch name, or (inside
\* CodeupProvider only) None.
AllBranches == [all |-> TRUE, name |-> 0]
NoBranch == [all |-> FALSE, name |-> 0]
Branch(b) == [all |-> FALSE, name |-> b]

RECURSIVE SeqToSet(_)
SeqToSet(s) == IF s = <<>> THEN {} ELSE {Head(s)} \cup SeqToSet(Tail(s))

\* Duplicate-free sequences over S of length at most n.
RECURSIVE DistinctSeqs(_, _)
DistinctSeqs(S, n) ==
    IF n = 0 THEN {<<>>}
    ELSE LET shorter == DistinctSeqs(S, n - 1)
         IN shorter \cup
            {Append(p[1], p[2]) :
                p \in {q \in shorter \X S :
                          Len(q[1]) = n - 1 /\ q[2] \notin SeqToSet(q[1])}}

(***************************************************************************)
(* The upstream repository as the HTTP API presents it: per branch the     *)
(* commit listing (each commit once per branch, in the order the upstream  *)
(* lists it) and per commit its authoredDate.                              *)
(***************************************************************************)
Upstreams ==
    [listing : [Branches -> DistinctSeqs(Hashes, NumCommits)],
     date    : [Hashes -> Instants]]

\* One transport failure per call: which HTTP request answers 4xx/5xx.
\*   "branches": the branch listing; "page": page n of branch b's commit
\*   listing; "detail": the per-commit detail request of commit n.
NoFailure == [kind |-> "none", b |-> 0, n |-> 0]
Failures ==
    {NoFailure, [kind |-> "branches", b |-> 0, n |-> 0]}
    \cup [kind : {"page"}, b : Branches, n : 1..(NumCommits \div PerPage + 1)]
    \cup [kind : {"detail"}, b : {0}, n : Hashes]

\* _api_request: the JSON body, or None after an HTTP or network error.
ApiOk(data) == [ok |-> TRUE, data |-> data]
ApiNone == [ok |-> FALSE, data |-> <<>>]

\* Page p (1-based) of a listing, PerPage entries a page.
PageOf(listing, p) ==
    SubSeq(listing, (p - 1) * PerPage + 1,
           IF p * PerPage < Len(listing) THEN p * PerPage ELSE Len(listing))

\* GET .../commits?page=p&perPage=..&refName=ref
ApiCommitsPage(up, ref, p, fail) ==
    IF fail.kind = "page" /\ fail.b = ref /\ fail.n = p
    THEN ApiNone
    ELSE ApiOk(PageOf(up.listing[ref], p))

\* GET .../commits/{id}
ApiCommitDetail(h, fail) ==
    IF fail.kind = "detail" /\ fail.n = h THEN ApiNone ELSE ApiOk(<<h>>)

\* GET .../branches
ApiBranches(fail) ==
    IF fail.kind = "branches" THEN ApiNone
    ELSE ApiOk([i \in 1..NumBranches |-> i])

(***************************************************************************)
(* CodeupProvider (EnterpriseApi)                                          *)
(***************************************************************************)
\* _parse_commit: the commit is built from the listing entry; the detail
\* request only supplies its files.
CodeupParseCommit(up, h, fail) ==
    [hash |-> h, date |-> up.date[h], detailed |-> ApiCommitDetail(h, fail).ok]

\* list_branches
CodeupListBranches(fail) ==
    LET r == ApiBranches(fail) IN IF ~r.ok THEN <<>> ELSE r.data

\* The item loop of _get_commits_single_branch over one page:
\* a commit dated before `since` returns at once, one dated after the
\* `until` day is skipped, both compared on the date's first 10 characters.
RECURSIVE CodeupScanPage(_, _, _, _, _, _, _)
CodeupScanPage(up, items, i, acc, since, until, fail) ==
    IF i > Len(items) THEN [acc |-> acc, stop |-> FALSE]
    ELSE LET commit == CodeupParseCommit(up, items[i], fail) IN
         IF Day(commit.date) < Day(since)
         THEN [acc |-> acc, stop |-> TRUE]
         ELSE IF Day(commit.date) > Day(until)
         THEN CodeupScanPage(up, items, i + 1, acc, since, until, fail)
         ELSE CodeupScanPage(up, items, i + 1, Append(acc, commit),
                             since, until, fail)

RECURSIVE CodeupFetchPages(_, _, _, _, _, _, _)
CodeupFetchPages(up, ref, page, acc, since, until, fail) ==
    LET r == ApiCommitsPage(up, ref, page, fail) IN
    IF ~r.ok \/ r.data = <<>> THEN acc
    ELSE LET s == CodeupScanPage(up, r.data, 1, acc, since, until, fail) IN
         IF s.stop THEN s.acc
         ELSE IF Len(r.data) < PerPage THEN s.acc
         ELSE IF page + 1 > MaxPages THEN s.acc
         ELSE CodeupFetchPages(up, ref, page + 1, s.acc, since, until, fail)

\* _get_commits_single_branch; branch None reads refName "master".
GetCommitsSingleBranch(up, branch, since, until, fail) ==
    LET ref == IF branch = NoBranch THEN 1 ELSE branch.name IN
    CodeupFetchPages(up, ref, 1, <<>>, since, until, fail)

\* Mutant of AddUnseen: the seen-set test is dropped.
AddUnseenNoSeenTest(commits, i, st) ==
    [all |-> st.all \o SubSeq(commits, i, Len(commits)),
     seen |-> st.seen \cup {commits[j].hash : j \in i..Len(commits)}]

\* The seen-set loop of _get_commits_all_branches over one branch's commits.
RECURSIVE AddUnseen(_, _, _)
AddUnseen(commits, i, st) ==
    IF i > Len(commits) THEN st
    ELSE IF commits[i].hash \notin st.seen
    THEN AddUnseen(commits, i + 1,
                   [all |-> Append(st.all, commits[i]),
                    seen |-> st.seen \cup {commits[i].hash}])
    ELSE AddUnseen(commits, i + 1, st)

RECURSIVE MergeBranches(_, _, _, _, _, _, _)
MergeBranches(up, branches, i, st, since, until, fail) ==
    IF i > Len(branches) THEN st.all
    ELSE MergeBranches(up, branches, i + 1,
             AddUnseen(GetCommitsSingleBranch(up, Branch(branches[i]),
                                              since, until, fail),
                       1, st),
             since, until, fail)

\* list.sort(key=date, reverse=True): stable, descending by date.
RECURSIVE InsertDesc(_, _)
InsertDesc(sorted, c) ==
    IF sorted = <<>> THEN <<c>>
    ELSE IF Head(sorted).date >= c.date
    THEN <<Head(sorted)>> \o InsertDesc(Tail(sorted), c)
    ELSE <<c>> \o sorted

RECURSIVE SortByDateDesc(_)
SortByDateDesc(s) ==
    IF s = <<>> THEN <<>>
    ELSE InsertDesc(SortByDateDesc(SubSeq(s, 1, Len(s) - 1)), s[Len(s)])

\* _get_commits_all_branches
GetCommitsAllBranches(up, since, until, fail) ==
    LET branches == CodeupListBranches(fail) IN
    IF branches = <<>>
    THEN GetCommitsSingleBranch(up, NoBranch, since, until, fail)
    ELSE SortByDateDesc(
             MergeBranches(up, branches, 1, [all |-> <<>>, seen |-> {}],
                           since, until, fail))

\* CodeupProvider.get_commits
CodeupGetCommits(up, since, until, branch, fail) ==
    IF branch = AllBranches
    THEN GetCommitsAllBranches(up, since, until, fail)
    ELSE GetCommitsSingleBranch(up, branch, since, until, fail)

(***************************************************************************)
(* GitHubProvider (HostedApiA) and GitLabProvider (HostedApiB): the window *)
(* and the branch are query parameters, the upstream applies them.         *)
(***************************************************************************)
\* The upstream's since/until filter on a listing, taken to be exactly the
\* half-open window the provider asks for.
UpstreamWindow(up, listing, since, until) ==
    SelectSeq(listing, LAMBDA h : since <= up.date[h] /\ up.date[h] < until)

\* The upstream's listing of every branch fused (GitLab all=true, git log
\* --all): each commit once, in first-listed order.
RECURSIVE FuseBranches(_, _, _)
FuseBranches(up, b, acc) ==
    IF b > NumBranches THEN acc
    ELSE FuseBranches(up, b + 1,
             acc \o SelectSeq(up.listing[b],
                              LAMBDA h : h \notin SeqToSet(acc)))

\* _api_request_list (github.py and gitlab.py share it): pages are
\* concatenated until a page fails or is empty, is short, or the cap is hit.
RECURSIVE ApiRequestList(_, _, _, _, _)
ApiRequestList(listing, ref, page, results, fail) ==
    LET r == IF fail.kind = "page" /\ fail.b = ref /\ fail.n = page
             THEN ApiNone ELSE ApiOk(PageOf(listing, page)) IN
    IF ~r.ok \/ r.data = <<>> THEN results
    ELSE IF Len(r.data) < PerPage THEN results \o r.data
    ELSE IF page + 1 > MaxPages THEN results \o r.data
    ELSE ApiRequestList(listing, ref, page + 1, results \o r.data, fail)

\* The detail loop of GitHubProvider.get_commits: a commit whose detail
\* request fails is left out.
RECURSIVE GitHubDetails(_, _, _, _, _)
GitHubDetails(up, items, i, commits, fail) ==
    IF i > Len(items) THEN commits
    ELSE IF ApiCommitDetail(items[i], fail).ok
    THEN GitHubDetails(up, items, i + 1,
             Append(commits, [hash |-> items[i], date |-> up.date[items[i]],
                              detailed |-> TRUE]), fail)
    ELSE GitHubDetails(up, items, i + 1, commits, fail)

\* GitHubProvider.get_commits: without `sha` the upstream lists the default
\* branch.
GitHubGetCommits(up, since, until, branch, fail) ==
    LET ref == IF branch = AllBranches THEN 1 ELSE branch.name
        listed == UpstreamWindow(up, up.listing[ref], since, until)
    IN GitHubDetails(up, ApiRequestList(listed, ref, 1, <<>>, fail), 1, <<>>, fail)

\* The loop of GitLabProvider.get_commits: every listed commit is emitted;
\* a failed diff request leaves it with the synthetic "(unknown)" file.
GitLabCommits(up, items, fail) ==
    [i \in 1..Len(items) |->
        [hash |-> items[i], date |-> up.date[items[i]],
         detailed |-> ApiCommitDetail(items[i], fail).ok]]

\* GitLabProvider.get_commits
GitLabGetCommits(up, since, until, branch, fail) ==
    LET ref == IF branch = AllBranches THEN 1 ELSE branch.name
        raw == IF branch = AllBranches THEN FuseBranches(up, 1, <<>>)
               ELSE up.listing[ref]
        listed == UpstreamWindow(up, raw, since, until)
    IN GitLabCommits(up, ApiRequestList(listed, ref, 1, <<>>, fail), fail)

(***************************************************************************)
(* GenericGitProvider (LocalClone): git log on the working copy.           *)
(***************************************************************************)
\* GenericGitProvider.get_commits: the commits of `git log --since --until`
\* over --all or one branch, in git's order.
LocalGetCommits(up, since, until, branch) ==
    LET raw == IF branch = AllBranches THEN FuseBranches(up, 1, <<>>)
               ELSE up.listing[branch.name]
        listed == UpstreamWindow(up, raw, since, until)
    IN [i \in 1..Len(listed) |->
           [hash |-> listed[i], date |-> up.date[listed[i]], detailed |-> TRUE]]

\* GitProvider.get_commits, by provider.
Providers == {"codeup", "github", "gitlab", "local"}
GetCommits(provider, up, since, until, branch, fail) ==
    CASE provider = "codeup" -> CodeupGetCommits(up, since, until, branch, fail)
      [] provider = "github" -> GitHubGetCommits(up, since, until, branch, fail)
      [] provider = "gitlab" -> GitLabGetCommits(up, since, until, branch, fail)
      [] OTHER -> LocalGetCommits(up, since, until, branch)

(***************************************************************************)
(* Run orchestration (src/main.py): one process per command-line run.      *)
(***************************************************************************)
\* Repositories of a run (configured, or listed by the provider).
NumRepos == 2
\* Processes that may run at the same time on one machine.
NumRuns == 2
\* Time ranges of an all-ranges dashboard (five presets in the code, scaled).
NumRanges == 2

Repos == 1..NumRepos
RunIds == 1..NumRuns
Commands == {"daily", "weekly", "monthly", "dashboard"}
Platforms == {"github", "gitlab", "codeup", "git"}

\* The configuration as create_provider reads it: git.platform, whether a
\* token resolves non-empty (environment or git.token), whether the Codeup
\* organisation id resolves non-empty, whether `repositories` is non-empty.
Configs ==
    [platform : Platforms, token : BOOLEAN, org : BOOLEAN,
     repositories : BOOLEAN]

\* create_provider: the provider built for the configuration, "none" for
\* the paths that print a warning and return None.
CreateProvider(config) ==
    CASE config.platform = "github" -> "github"
      [] config.platform = "gitlab" -> "gitlab"
      [] config.platform = "codeup" ->
            IF ~config.org THEN "none"
            ELSE IF ~config.token THEN "none"
            ELSE "codeup"
      [] OTHER -> IF ~config.repositories THEN "none" ELSE "local"

\* The shared directory <tmp>/code-health-repos: per repository name, 0 when
\* the path is absent, else the run whose clone the path holds.
EmptyDisk == [repo \in Repos |-> 0]

\* GenericGitProvider._clone_repo of run r; `ok` is git clone's outcome.
CloneRepo(r, repo, cloned, d, ok) ==
    IF repo \in cloned
    THEN [cloned |-> cloned, disk |-> d, raised |-> FALSE, clones |-> 0]
    ELSE IF ok
    THEN [cloned |-> cloned \cup {repo}, disk |-> [d EXCEPT ![repo] = r],
          raised |-> FALSE, clones |-> 1]
    ELSE [cloned |-> cloned, disk |-> [d EXCEPT ![repo] = 0],
          raised |-> TRUE, clones |-> 0]

\* GenericGitProvider.get_commits of run r: clone (or cache hit), then
\* `git -C <path> log`, which fails when the path is no longer there.
LocalFetch(r, repo, cloned, d, ok) ==
    LET c == CloneRepo(r, repo, cloned, d, ok) IN
    IF c.raised THEN c ELSE [c EXCEPT !.raised = (c.disk[repo] = 0)]

\* Mutant of Cleanup: the temporary directory is left in place.
CleanupKeepsTempDir(provider, d) == [cloned |-> {}, disk |-> d]

\* GitProvider.cleanup: GenericGitProvider (built with auto_cleanup=True)
\* removes the whole temporary directory and clears its clone cache; the
\* API providers inherit the no-op.
Cleanup(provider, d) ==
    [cloned |-> {}, disk |-> IF provider = "local" THEN EmptyDisk ELSE d]

\* A run that was never started, and a run about to execute main().
OffRun ==
    [pc |-> "off", command |-> "daily",
     config |-> [platform |-> "git", token |-> FALSE, org |-> FALSE,
                 repositories |-> FALSE],
     output |-> FALSE, provider |-> "none", range |-> 1, next |-> 1,
     attempted |-> {}, failed |-> {}, cloned |-> {}, clones |-> 0,
     requests |-> 0, raised |-> FALSE, cleaned |-> FALSE, exit |-> -1]

IdleRun(command, config, output) ==
    [OffRun EXCEPT !.pc = "idle", !.command = command, !.config = config,
                   !.output = output]

\* The data-collection passes of a run: one per dashboard range, else one.
Ranges(run) == IF run.command = "dashboard" THEN NumRanges ELSE 1

\* The run's position after repository run.next was handled without an
\* exception leaving the repository loop.
AfterRepo(run) ==
    IF run.next < NumRepos THEN [run EXCEPT !.next = run.next + 1]
    ELSE [run EXCEPT !.pc = "render"]

\* An exception leaves the `with provider:` block: __exit__ runs next.
Raise(run) == [run EXCEPT !.pc = "exit", !.raised = TRUE]

(***************************************************************************)
(* Report rendering (src/reporters): generate() over a fetched commit set. *)
(***************************************************************************)
\* Commits handed to one generate() call, authors among them, files of a
\* commit, lines one file adds.
MaxRenderCommits == 2
NumAuthors == 2
MaxFiles == 1
MaxAdded == 1

\* A commit dict as get_all_commits builds it: lines_added is the sum over
\* its files, so a commit without files adds 0 lines; dateOk tells whether
\* parse_iso_datetime accepts its date string.
RenderCommits ==
    {c \in [author : 1..NumAuthors, files : 0..MaxFiles,
            lines_added : 0..(MaxFiles * MaxAdded), dateOk : BOOLEAN] :
        c.files = 0 => c.lines_added = 0}

CommitSets == UNION {[1..n -> RenderCommits] : n \in 0..MaxRenderCommits}

RECURSIVE SumOver(_, _, _)
SumOver(cs, a, field) ==
    IF cs = <<>> THEN 0
    ELSE (IF Head(cs).author = a
          THEN (IF field = "commits" THEN 1 ELSE Head(cs).lines_added)
          ELSE 0) + SumOver(Tail(cs), a, field)

\* author_stats: per author present, its commit count, added lines and the
\* number of repositories it touched (the commit set is one repository's).
AuthorStats(cs) ==
    [a \in {cs[i].author : i \in DOMAIN cs} |->
        [commits |-> SumOver(cs, a, "commits"),
         added |-> SumOver(cs, a, "added"),
         repos |-> 1]]

\* max(values, default=d)
MaxOrDefault(S, d) ==
    IF S = {} THEN d ELSE CHOOSE m \in S : \A x \in S : x <= m

\* calc_score: each `/` raises ZeroDivisionError on a zero divisor; the
\* score is kept in tenths, as the table prints it ({score:.1f}).
CalcScore(stats, max_commits, max_added, max_repos) ==
    IF max_commits = 0 \/ max_added = 0 \/ max_repos = 0
    THEN [raised |-> TRUE, score |-> 0]
    ELSE [raised |-> FALSE,
          score |-> (stats.commits * 300) \div max_commits
                    + (stats.added * 500) \div max_added
                    + (stats.repos * 200) \div max_repos]

\* The ranking of WeeklyReporter._generate_productivity and of
\* MonthlyReporter._generate_team_performance: sorted() calls calc_score for
\* every author; the first exception leaves the section.
Ranking(cs) ==
    LET stats == AuthorStats(cs)
        authors == DOMAIN stats
        max_commits == MaxOrDefault({stats[a].commits : a \in authors}, 1)
        max_added == MaxOrDefault({stats[a].added : a \in authors}, 1)
        max_repos == MaxOrDefault({stats[a].repos : a \in authors}, 1)
        scores == [a \in authors |->
                      CalcScore(stats[a], max_commits, max_added, max_repos)]
    IN [raised |-> \E a \in authors : scores[a].raised,
        rows |-> Cardinality(authors)]

\* The per-commit lines of DailyReporter._generate_commit_details: the time
\* column falls back to "??:??" when the date does not parse.
CommitDetails(cs) ==
    [i \in DOMAIN cs |-> IF cs[i].dateOk THEN "HH:MM" ELSE "??:??"]

\* DailyReporter.generate: header, five titled sections, footer.
DailyGenerate(cs) ==
    [kind |-> "daily", raised |-> FALSE, parts |-> 12,
     details |-> CommitDetails(cs)]

\* WeeklyReporter.generate: header, five titled sections, footer; the
\* first section is the productivity ranking.
WeeklyGenerate(cs) ==
    IF Ranking(cs).raised
    THEN [kind |-> "weekly", raised |-> TRUE, parts |-> 0, details |-> <<>>]
    ELSE [kind |-> "weekly", raised |-> FALSE, parts |-> 12, details |-> <<>>]

\* MonthlyReporter.generate: header, six titled sections, footer; the
\* second section is the team ranking.
MonthlyGenerate(cs) ==
    IF Ranking(cs).raised
    THEN [kind |-> "monthly", raised |-> TRUE, parts |-> 0, details |-> <<>>]
    ELSE [kind |-> "monthly", raised |-> FALSE, parts |-> 14, details |-> <<>>]

Reporters == {"daily", "weekly", "monthly"}
Generate(kind, cs) ==
    CASE kind = "daily" -> DailyGenerate(cs)
      [] kind = "weekly" -> WeeklyGenerate(cs)
      [] OTHER -> MonthlyGenerate(cs)

NoReport == [kind |-> "none", raised |-> FALSE, parts |-> 0, details |-> <<>>]

(***************************************************************************)
(* State                                                                   *)
(***************************************************************************)
VARIABLES
    upstream,   \* the upstream repository a provider reads
    call,       \* the get_commits call last made and what it returned
    runs,       \* per run: its arguments, provider and position in main()
    disk,       \* the shared clone directory
    commits,    \* the commit set handed to a reporter
    report,     \* what generate() gave for it
    args,       \* the arguments of the function call under examination
    ret         \* what that call returned

vars == <<upstream, call, runs, disk, commits, report, args, ret>>
fetchVars == <<upstream, call>>
runVars == <<runs, disk>>
renderVars == <<commits, report>>
callVars == <<args, ret>>

NoCall ==
    [provider |-> "none", branch |-> NoBranch, since |-> 0, until |-> 0,
     fail |-> NoFailure, result |-> <<>>]

\* The transport failures a provider's call can meet.
FailuresOf(provider, branch) ==
    CASE provider = "local" -> {NoFailure}
      [] provider = "codeup" /\ branch = AllBranches -> Failures
      [] OTHER -> {f \in Failures :
                      /\ f.kind # "branches"
                      /\ f.kind = "page" =>
                            f.b = (IF branch = AllBranches THEN 1 ELSE branch.name)}

\* The variables of the subsystems a specification leaves idle.
IdleUpstream ==
    [listing |-> [b \in Branches |-> <<>>], date |-> [h \in Hashes |-> 0]]
IdleFetch == upstream = IdleUpstream /\ call = NoCall
IdleRuns == runs = [r \in RunIds |-> OffRun] /\ disk = EmptyDisk
IdleRender == commits = <<>> /\ report = NoReport
NoArgs == [fn |-> "none"]
NoRet == [fn |-> "none"]
IdleCall == args = NoArgs /\ ret = NoRet

InitFetch ==
    /\ upstream \in Upstreams
    /\ call = NoCall
    /\ IdleRuns
    /\ IdleRender
    /\ IdleCall

\* provider.get_commits(repo, since, until, branch) on a window of whole days.
CallGetCommits ==
    /\ call = NoCall
    /\ \E provider \in Providers,
          branch \in {AllBranches} \cup {Branch(b) : b \in Branches},
          ds \in 1..(MaxDay - 1) :
        \E du \in (ds + 1)..MaxDay :
        \E fail \in FailuresOf(provider, branch) :
            call' = [provider |-> provider, branch |-> branch,
                     since |-> DayStart(ds), until |-> DayStart(du),
                     fail |-> fail,
                     result |-> GetCommits(provider, upstream, DayStart(ds),
                                           DayStart(du), branch, fail)]
    /\ UNCHANGED <<upstream, runVars, renderVars, callVars>>

\* The caller takes the result.
ReturnCommits ==
    /\ call # NoCall
    /\ call' = NoCall
    /\ UNCHANGED <<upstream, runVars, renderVars, callVars>>

NextFetch == CallGetCommits \/ ReturnCommits

SpecFetch == InitFetch /\ [][NextFetch]_vars

(***************************************************************************)
(* Runs: main() -> run_daily / run_weekly / run_monthly / run_dashboard    *)
(***************************************************************************)
\* main() up to the `with provider:` line: when create_provider gives
\* None the run function returns and the process ends with status 0.
Start(r) ==
    /\ runs[r].pc = "idle"
    /\ LET provider == CreateProvider(runs[r].config) IN
       runs' = [runs EXCEPT ![r] =
                   IF provider = "none"
                   THEN [@ EXCEPT !.pc = "done", !.exit = 0]
                   ELSE [@ EXCEPT !.pc = "fetch", !.provider = provider]]
    /\ UNCHANGED <<disk, fetchVars, renderVars, callVars>>

\* One iteration of the repository loop: provider.get_commits(repo). The
\* reporters' get_all_commits catches what it raises and goes on; the
\* dashboard's collect_dashboard_data lets it propagate. An API provider
\* answers a failed request with an empty list.
FetchRepo(r) ==
    /\ runs[r].pc = "fetch"
    /\ \E ok \in BOOLEAN :
        LET run == runs[r]
            repo == run.next
            tried == [run EXCEPT !.attempted = @ \cup {repo}]
        IN IF run.provider = "local"
           THEN LET f == LocalFetch(r, repo, run.cloned, disk, ok)
                    got == [tried EXCEPT !.cloned = f.cloned,
                                         !.clones = @ + f.clones]
                IN /\ disk' = f.disk
                   /\ runs' = [runs EXCEPT ![r] =
                         IF ~f.raised THEN AfterRepo(got)
                         ELSE IF run.command = "dashboard"
                         THEN Raise([got EXCEPT !.failed = @ \cup {repo}])
                         ELSE AfterRepo([got EXCEPT !.failed = @ \cup {repo}])]
           ELSE /\ disk' = disk
                /\ runs' = [runs EXCEPT ![r] =
                      AfterRepo([tried EXCEPT
                          !.requests = @ + 1,
                          !.failed = IF ok THEN @ ELSE @ \cup {repo}])]
    /\ UNCHANGED <<fetchVars, renderVars, callVars>>

\* The rest of generate() (reporters), or generate_dashboard_html and the
\* write of one range's file (dashboard); either may raise.
Render(r) ==
    /\ runs[r].pc = "render"
    /\ \E ok \in BOOLEAN :
        LET run == runs[r] IN
        runs' = [runs EXCEPT ![r] =
            IF ~ok THEN Raise(run)
            ELSE IF run.command = "dashboard"
            THEN (IF run.range < Ranges(run)
                  THEN [run EXCEPT !.range = @ + 1, !.next = 1, !.pc = "fetch"]
                  ELSE [run EXCEPT !.pc = "exit"])
            ELSE IF run.output THEN [run EXCEPT !.pc = "write"]
            ELSE [run EXCEPT !.pc = "exit"]]
    /\ UNCHANGED <<disk, fetchVars, renderVars, callVars>>

\* os.makedirs and the write of <output_dir>/<name>.md
WriteReport(r) ==
    /\ runs[r].pc = "write"
    /\ \E ok \in BOOLEAN :
        runs' = [runs EXCEPT ![r] =
                    IF ok THEN [@ EXCEPT !.pc = "html"] ELSE Raise(@)]
    /\ UNCHANGED <<disk, fetchVars, renderVars, callVars>>

\* convert_md_to_html(filepath)
ConvertHtml(r) ==
    /\ runs[r].pc = "html"
    /\ \E ok \in BOOLEAN :
        runs' = [runs EXCEPT ![r] =
                    IF ok THEN [@ EXCEPT !.pc = "index"] ELSE Raise(@)]
    /\ UNCHANGED <<disk, fetchVars, renderVars, callVars>>

\* generate_index(reports_base, project_name)
GenerateIndex(r) ==
    /\ runs[r].pc = "index"
    /\ \E ok \in BOOLEAN :
        runs' = [runs EXCEPT ![r] =
                    IF ok THEN [@ EXCEPT !.pc = "exit"] ELSE Raise(@)]
    /\ UNCHANGED <<disk, fetchVars, renderVars, callVars>>

\* GitProvider.__exit__: cleanup(), then the pending exception (if any)
\* propagates out of main() and the process ends with status 1, else 0.
ExitProvider(r) ==
    /\ runs[r].pc = "exit"
    /\ LET c == Cleanup(runs[r].provider, disk) IN
        /\ disk' = c.disk
        /\ runs' = [runs EXCEPT ![r] =
                       [@ EXCEPT !.pc = "done", !.cloned = c.cloned,
                                 !.cleaned = TRUE,
                                 !.exit = IF runs[r].raised THEN 1 ELSE 0]]
    /\ UNCHANGED <<fetchVars, renderVars, callVars>>

NextRun ==
    \E r \in RunIds :
        \/ Start(r)
        \/ FetchRepo(r)
        \/ Render(r)
        \/ WriteReport(r)
        \/ ConvertHtml(r)
        \/ GenerateIndex(r)
        \/ ExitProvider(r)

\* One run on the machine, any command and configuration.
InitRun ==
    /\ \E command \in Commands, config \in Configs, output \in BOOLEAN :
        runs = [r \in RunIds |->
                   IF r = 1 THEN IdleRun(command, config, output) ELSE OffRun]
    /\ disk = EmptyDisk
    /\ IdleFetch
    /\ IdleRender
    /\ IdleCall

SpecRun == InitRun /\ [][NextRun]_vars

\* Every run started at once, all with the LocalClone provider over the
\* same configured repositories.
LocalConfig ==
    [platform |-> "git", token |-> TRUE, org |-> FALSE, repositories |-> TRUE]

InitTwoRuns ==
    /\ runs \in [RunIds -> {IdleRun(command, LocalConfig, TRUE) :
                               command \in Commands}]
    /\ disk = EmptyDisk
    /\ IdleFetch
    /\ IdleRender
    /\ IdleCall

SpecTwoRuns == InitTwoRuns /\ [][NextRun]_vars

(***************************************************************************)
(* Rendering: generate() of a reporter on a commit set                     *)
(***************************************************************************)
InitRender ==
    /\ commits \in CommitSets
    /\ report = NoReport
    /\ IdleFetch
    /\ IdleRuns
    /\ IdleCall

\* reporter.generate() with get_all_commits giving `commits`.
CallGenerate ==
    /\ report = NoReport
    /\ \E kind \in Reporters : report' = Generate(kind, commits)
    /\ UNCHANGED <<commits, fetchVars, runVars, callVars>>

\* The caller takes the document (or the exception).
ReturnReport ==
    /\ report # NoReport
    /\ report' = NoReport
    /\ UNCHANGED <<commits, fetchVars, runVars, callVars>>

NextRender == CallGenerate \/ ReturnReport

SpecRender == InitRender /\ [][NextRender]_vars

(***************************************************************************)
(* Properties of get_commits (under SpecFetch)                             *)
(***************************************************************************)
ResultHashes == {call.result[i].hash : i \in DOMAIN call.result}

\* C1: for every provider, the sequence get_commits(branch="all") returns
\* holds no hash twice, whatever branches a commit is reachable from and
\* however the listing is paged, also on Codeup's single-listing fallback
\* taken when the branch listing fails.
C1_HashUnique ==
    (call # NoCall /\ call.branch = AllBranches) =>
        \A i, j \in DOMAIN call.result :
            call.result[i].hash = call.result[j].hash => i = j

\* C1 witness: Codeup, all branches, a commit listed on both branches, the
\* first branch paged over two pages, and every commit returned.
C1_Witness ==
    /\ call.provider = "codeup"
    /\ call.branch = AllBranches
    /\ call.fail = NoFailure
    /\ Len(upstream.listing[1]) > PerPage
    /\ \E h \in Hashes :
        /\ h \in SeqToSet(upstream.listing[1])
        /\ h \in SeqToSet(upstream.listing[2])
        /\ h \in ResultHashes
    /\ Len(call.result) = NumCommits

\* C2: every commit c that get_commits(since, until) returns satisfies
\* since <= c.timestamp < until; with the daily window [D, D+1 day) no
\* commit dated on day D+1 is returned.
C2_WindowClosed ==
    call # NoCall =>
        \A i \in DOMAIN call.result :
            call.since <= call.result[i].date /\ call.result[i].date < call.until

\* C3: on Codeup, when no request fails, get_commits of a branch returns
\* every commit of the branch whose timestamp lies in the window, whatever
\* order the upstream lists them in.
C3_Complete ==
    (call.provider = "codeup" /\ call.fail = NoFailure /\ ~call.branch.all) =>
        \A h \in SeqToSet(upstream.listing[call.branch.name]) :
            (call.since <= upstream.date[h] /\ upstream.date[h] < call.until)
                => h \in ResultHashes

\* C4: the sequence get_commits returns is ordered by timestamp descending,
\* ties broken by hash (stated here for Codeup, all branches and single
\* branch alike).
C4_OrderedDesc ==
    call.provider = "codeup" =>
        \A i, j \in DOMAIN call.result :
            i < j =>
                \/ call.result[i].date > call.result[j].date
                \/ /\ call.result[i].date = call.result[j].date
                   /\ call.result[i].hash < call.result[j].hash

\* C6: when an HTTP request issued during get_commits fails (the result
\* differs from the one the same call gives with no failure), the result is
\* the empty list, not a partially fetched one.
C6_FailureGivesEmpty ==
    (/\ call # NoCall
     /\ call.fail # NoFailure
     /\ call.result # GetCommits(call.provider, upstream, call.since,
                                 call.until, call.branch, NoFailure))
        => call.result = <<>>

(***************************************************************************)
(* Properties of a run (under SpecRun and SpecTwoRuns)                     *)
(***************************************************************************)
\* C5: when fetching one repository fails, the run still fetches every
\* remaining repository: a finished run that saw a fetch fail has called
\* get_commits for all its repositories, whichever command it ran.
C5_FailureIsolated ==
    \A r \in RunIds :
        (runs[r].pc = "done" /\ runs[r].failed # {})
            => runs[r].attempted = Repos

\* What create_provider itself treats as missing: the Codeup organisation
\* id or token, or (LocalClone) the repository list.
CredentialsMissing(config) ==
    \/ config.platform = "codeup" /\ (~config.org \/ ~config.token)
    \/ config.platform = "git" /\ ~config.repositories

\* C7: a run whose provider credentials or scope are missing issues no
\* network request and ends with a non-zero exit code, never with 0.
C7_MissingCredentialsFatal ==
    \A r \in RunIds :
        (runs[r].pc # "off" /\ CredentialsMissing(runs[r].config))
            => /\ runs[r].requests = 0
               /\ runs[r].pc = "done" => runs[r].exit # 0

\* C8: when a run with the LocalClone provider has ended, whether it
\* succeeded or raised at some step, cleanup() has been executed, no cloned
\* working copy remains on disk and the provider's clone cache is empty.
C8_CleanupBeforeEnd ==
    (runs[1].provider = "local" /\ runs[1].pc = "done")
        => /\ runs[1].cleaned
           /\ runs[1].cloned = {}
           /\ disk = EmptyDisk

\* C8 witness: a LocalClone run that cloned a repository, then raised, and
\* has ended.
C8_Witness ==
    /\ runs[1].provider = "local"
    /\ runs[1].pc = "done"
    /\ runs[1].clones > 0
    /\ runs[1].raised
    /\ runs[1].exit = 1

\* C9: two concurrent LocalClone runs never touch each other's working
\* copies: every repository a run holds in its clone cache is on disk as
\* the copy that run cloned, not removed or replaced by the other run.
C9_WorkingCopiesIsolated ==
    \A r \in RunIds :
        \A repo \in runs[r].cloned : disk[repo] = r

(***************************************************************************)
(* Properties of generate() (under SpecRender)                             *)
(***************************************************************************)
\* C10: generate() of the daily, weekly and monthly reporter returns a
\* complete document without raising for every commit set: empty, commits
\* without files, all commits with 0 added lines, unparsable dates.
C10_GenerateNeverRaises ==
    report # NoReport => (~report.raised /\ report.parts > 0)

(***************************************************************************)
(* Health scores (src/analyzers/health_score.py, the reporters' score      *)
(* sections, the dashboard's per-day trend score)                          *)
(***************************************************************************)
\* Largest count a metric takes; large enough for the deductions to pass 100.
MaxCount == 30

Counts == {0, 1, 11, MaxCount}
Rates == {0, 10, 11, 30, 31}
Qualities == {59, 60}

\* thresholds read by calculate(), warning <= danger.
ThresholdConfigs ==
    {c \in [churn_rate_warning : {10, 30}, churn_rate_danger : {10, 30},
            rework_rate_warning : {10, 30}, rework_rate_danger : {10, 30}] :
        /\ c.churn_rate_warning <= c.churn_rate_danger
        /\ c.rework_rate_warning <= c.rework_rate_danger}

\* The metrics dict of calculate(); the reporters count large_commits,
\* late_night, weekend and message_quality from their commit set.
HealthInputs ==
    [fn : {"health"}, large_commits : {0, 1, MaxCount}, churn_rate : Rates,
     rework_rate : Rates, message_quality : Qualities,
     late_night_commits : {0, 1, 11}, weekend_commits : {0, 5, MaxCount},
     high_risk_files : {0, 1, 6}, config : ThresholdConfigs]

\* One date of the dashboard: commits_by_date and lines_by_date.
DayInputs ==
    [fn : {"day"}, commits : {0, 1, 21}, added : {0, 10, 100},
     deleted : {0, 31, 51, 1000}]

Min(a, b) == IF a < b THEN a ELSE b

LargeDeduction(large_commits) ==
    IF large_commits > 0 THEN large_commits * 5 ELSE 0

\* Mutant of ChurnDeduction: the two deductions are exchanged.
ChurnDeductionSwapped(churn_rate, config) ==
    IF churn_rate > config.churn_rate_danger THEN 10
    ELSE IF churn_rate > config.churn_rate_warning THEN 20
    ELSE 0

ChurnDeduction(churn_rate, config) ==
    IF churn_rate > config.churn_rate_danger THEN 20
    ELSE IF churn_rate > config.churn_rate_warning THEN 10
    ELSE 0

ReworkDeduction(rework_rate, config) ==
    IF rework_rate > config.rework_rate_danger THEN 15
    ELSE IF rework_rate > config.rework_rate_warning THEN 8
    ELSE 0

MessageDeduction(message_quality) == IF message_quality < 60 THEN 10 ELSE 0

\* calculate(): 2 points per late-night or weekend commit.
AbnormalDeduction(late_commits, weekend_commits) ==
    LET abnormal_commits == late_commits + weekend_commits IN
    IF abnormal_commits > 0 THEN abnormal_commits * 2 ELSE 0

HighRiskDeduction(high_risk_files) ==
    IF high_risk_files > 0 THEN Min(high_risk_files * 3, 15) ELSE 0

\* Mutant of ClampZero: the score is returned as computed.
NoClamp(score) == score

\* score = max(0, score)
ClampZero(score) == IF score < 0 THEN 0 ELSE score

\* HealthScoreCalculator.calculate (the score; integers round to themselves)
Calculate(m) ==
    ClampZero(100 - LargeDeduction(m.large_commits)
                  - ChurnDeduction(m.churn_rate, m.config)
                  - ReworkDeduction(m.rework_rate, m.config)
                  - MessageDeduction(m.message_quality)
                  - AbnormalDeduction(m.late_night_commits, m.weekend_commits)
                  - HighRiskDeduction(m.high_risk_files))

\* DailyReporter._generate_health_score
DailyHealthScore(m) ==
    LET abnormal == m.late_night_commits + m.weekend_commits
        score == 100 - (IF m.large_commits > 0 THEN m.large_commits * 5 ELSE 0)
                     - (IF m.message_quality < 60 THEN 10 ELSE 0)
                     - (IF abnormal > 0 THEN abnormal * 2 ELSE 0)
    IN IF score < 0 THEN 0 ELSE score

\* WeeklyReporter._generate_health_score_section
WeeklyHealthScore(m) ==
    LET abnormal == m.late_night_commits + m.weekend_commits
        score == 100 - (IF m.large_commits > 0 THEN m.large_commits * 5 ELSE 0)
                     - (IF m.message_quality < 60 THEN 10 ELSE 0)
                     - (IF abnormal > 0 THEN Min(abnormal * 2, 20) ELSE 0)
    IN IF score < 0 THEN 0 ELSE score

\* The per-date score of generate_dashboard_html; deleted / added * 100 is
\* compared without the division.
DayScore(d) ==
    LET base == IF d.commits = 0 THEN 70
                ELSE IF d.commits > 20 THEN 75 ELSE 80
        rework == IF d.added > 0
                  THEN (IF d.deleted * 100 > 50 * d.added THEN 15
                        ELSE IF d.deleted * 100 > 30 * d.added THEN 10 ELSE 0)
                  ELSE 0
        score == base - rework
    IN IF score > 100 THEN 100 ELSE IF score < 0 THEN 0 ELSE score

InitHealth ==
    /\ args \in HealthInputs \cup DayInputs
    /\ ret = NoRet
    /\ IdleFetch
    /\ IdleRuns
    /\ IdleRender

CallCalculate ==
    /\ args.fn = "health" /\ ret = NoRet
    /\ ret' = [fn |-> "calculate", value |-> Calculate(args)]
    /\ UNCHANGED <<args, fetchVars, runVars, renderVars>>

CallDailyHealthScore ==
    /\ args.fn = "health" /\ ret = NoRet
    /\ ret' = [fn |-> "daily", value |-> DailyHealthScore(args)]
    /\ UNCHANGED <<args, fetchVars, runVars, renderVars>>

CallWeeklyHealthScore ==
    /\ args.fn = "health" /\ ret = NoRet
    /\ ret' = [fn |-> "weekly", value |-> WeeklyHealthScore(args)]
    /\ UNCHANGED <<args, fetchVars, runVars, renderVars>>

CallDayScore ==
    /\ args.fn = "day" /\ ret = NoRet
    /\ ret' = [fn |-> "trend", value |-> DayScore(args)]
    /\ UNCHANGED <<args, fetchVars, runVars, renderVars>>

\* The caller takes the value.
Return ==
    /\ ret # NoRet
    /\ ret' = NoRet
    /\ UNCHANGED <<args, fetchVars, runVars, renderVars>>

NextHealth ==
    \/ CallCalculate
    \/ CallDailyHealthScore
    \/ CallWeeklyHealthScore
    \/ CallDayScore
    \/ Return

SpecHealth == InitHealth /\ [][NextHealth]_vars

\* C11: every health score emitted lies in [0, 100]: calculate(), the
\* daily and weekly report scores, and each per-day dashboard score.
C11_ScoreInRange ==
    ret # NoRet => (0 <= ret.value /\ ret.value <= 100)

\* C11 witness: calculate() on metrics whose deductions exceed 100.
C11_Witness ==
    /\ ret # NoRet
    /\ ret.fn = "calculate"
    /\ LargeDeduction(args.large_commits) > 100
    /\ ret.value = 0

\* No deduction other than the abnormal-time one applies.
NoOtherTrigger(m) ==
    /\ m.large_commits = 0
    /\ m.churn_rate <= m.config.churn_rate_warning
    /\ m.rework_rate <= m.config.rework_rate_warning
    /\ m.message_quality >= 60
    /\ m.high_risk_files = 0

\* C12: the abnormal-time deduction is min(2 * (late_night + weekend), 20)
\* in calculate() and in the daily and weekly report score: with more than
\* 10 late-night plus weekend commits and no other trigger the score is 80.
C12_AbnormalCapped ==
    (/\ ret # NoRet
     /\ ret.fn \in {"calculate", "daily", "weekly"}
     /\ args.late_night_commits + args.weekend_commits > 10
     /\ NoOtherTrigger(args))
        => ret.value = 80

\* The metrics that differ from m in one metric, which is worse.
Worsened(m) ==
    {[m EXCEPT !.large_commits = v] :
        v \in {x \in Counts : x > m.large_commits}}
    \cup {[m EXCEPT !.churn_rate = v] : v \in {x \in Rates : x > m.churn_rate}}
    \cup {[m EXCEPT !.rework_rate = v] : v \in {x \in Rates : x > m.rework_rate}}
    \cup {[m EXCEPT !.message_quality = v] :
        v \in {x \in Qualities : x < m.message_quality}}
    \cup {[m EXCEPT !.late_night_commits = v] :
        v \in {x \in Counts : x > m.late_night_commits}}
    \cup {[m EXCEPT !.weekend_commits = v] :
        v \in {x \in Counts : x > m.weekend_commits}}
    \cup {[m EXCEPT !.high_risk_files = v] :
        v \in {x \in Counts : x > m.high_risk_files}}

\* C13: with the other metrics and the thresholds (warning <= danger) held
\* constant, worsening one metric never raises the score of calculate().
C13_Monotone ==
    (ret # NoRet /\ ret.fn = "calculate") =>
        \A m \in Worsened(args) : Calculate(m) <= ret.value

\* C13 witness: a churn rate between the two thresholds whose rise past the
\* danger threshold lowers the score.
C13_Witness ==
    /\ ret # NoRet
    /\ ret.fn = "calculate"
    /\ args.churn_rate > args.config.churn_rate_warning
    /\ args.churn_rate <= args.config.churn_rate_danger
    /\ ret.value > 0
    /\ \E m \in Worsened(args) :
        m.churn_rate > args.config.churn_rate_danger /\ Calculate(m) < ret.value

(***************************************************************************)
(* Dashboard presets (src/utils/dashboard_generator.py: generate_dashboard) *)
(***************************************************************************)
\* Longest project history in days; 0 stands for "no dated daily report".
MaxHistory == 100

Presets == {7, 14, 30, 60, 90}

\* generate_redirect_html('index-all.html', days, project_days)
RedirectDoc(days, project_days) ==
    [kind |-> "redirect", target |-> "index-all.html", refresh |-> TRUE,
     link |-> TRUE, days |-> days]

\* generate_dashboard_html over the range [start, today], start no earlier
\* than the project's first day when that day is known.
DashboardDoc(range_days, project_days, start_known) ==
    [kind |-> "dashboard", target |-> "", refresh |-> FALSE, link |-> FALSE,
     days |-> IF start_known /\ range_days > project_days
              THEN project_days ELSE range_days]

\* The body of the loop over ranges_to_generate (generate_all_ranges).
RangeFile(range_days, project_days, start_known) ==
    IF range_days >= 60 /\ project_days # 0 /\ project_days < range_days
    THEN RedirectDoc(range_days, project_days)
    ELSE DashboardDoc(range_days, project_days, start_known)

\* The `elif days:` branch (--days N).
DaysFile(days, project_days, start_known) ==
    DashboardDoc(days, project_days, start_known)

\* No file of that name was written.
NoDoc == [kind |-> "none", target |-> "", refresh |-> FALSE, link |-> FALSE,
          days |-> 0]

\* Mutant of IndexAllFile: index-all.html is never written.
IndexAllNever(project_days, start_known) == NoDoc

\* The `if project_start_date:` block after the loop: index-all.html.
IndexAllFile(project_days, start_known) ==
    IF start_known
    THEN [kind |-> "dashboard", target |-> "", refresh |-> FALSE,
          link |-> FALSE, days |-> project_days]
    ELSE NoDoc

\* project_days is today minus the date of the first daily report, plus
\* one (below 1 for a report dated after today); without a first report
\* with a date for a name both it and project_start_date are None, which
\* project_days = 0 with start_known = FALSE stands for.
InitDashboard ==
    /\ args \in {a \in [fn : {"dashboard"}, project_days : -1..MaxHistory,
                        start_known : BOOLEAN] :
                    ~a.start_known => a.project_days = 0}
    /\ ret = NoRet
    /\ IdleFetch
    /\ IdleRuns
    /\ IdleRender

\* generate_dashboard(..., generate_all_ranges=True)
GenerateAllRanges ==
    /\ args.fn = "dashboard" /\ ret = NoRet
    /\ ret' = [fn |-> "all",
               files |-> [p \in Presets |->
                             RangeFile(p, args.project_days, args.start_known)],
               index_all |-> IndexAllFile(args.project_days, args.start_known)]
    /\ UNCHANGED <<args, fetchVars, runVars, renderVars>>

\* generate_dashboard(..., days=p, generate_all_ranges=False)
GenerateDays ==
    /\ args.fn = "dashboard" /\ ret = NoRet
    /\ \E p \in Presets :
        ret' = [fn |-> "days",
                files |-> [q \in {p} |->
                              DaysFile(q, args.project_days, args.start_known)],
                index_all |-> NoDoc]
    /\ UNCHANGED <<args, fetchVars, runVars, renderVars>>

NextDashboard == GenerateAllRanges \/ GenerateDays \/ Return

SpecDashboard == InitDashboard /\ [][NextDashboard]_vars

\* C14: for every preset P and known history of H days with P > H, the file
\* written for P is the redirect document to index-all.html (refresh
\* directive and fallback link), whether all presets are generated or only
\* P is requested with --days.
C14_ShortHistoryRedirects ==
    (ret # NoRet /\ args.project_days # 0) =>
        \A p \in DOMAIN ret.files :
            p > args.project_days =>
                /\ ret.files[p].kind = "redirect"
                /\ ret.files[p].target = "index-all.html"
                /\ ret.files[p].refresh
                /\ ret.files[p].link

\* C30: a completed dashboard run that wrote a redirect document for some
\* preset also wrote index-all.html, the redirect's target.
C30_RedirectTargetWritten ==
    (ret # NoRet /\ args.fn = "dashboard") =>
        ((\E p \in DOMAIN ret.files : ret.files[p].kind = "redirect")
            => ret.index_all.kind = "dashboard")

\* C30 witness: a run over a 45-day history wrote redirects for the 60- and
\* 90-day presets.
C30_Witness ==
    /\ ret # NoRet /\ ret.fn = "all"
    /\ args.project_days = 45
    /\ ret.files[60].kind = "redirect"
    /\ ret.files[90].kind = "redirect"
    /\ ret.index_all.kind = "dashboard"

(***************************************************************************)
(* Weekly window (src/reporters/weekly.py: WeeklyReporter.__init__)        *)
(***************************************************************************)
\* A calendar year as the week arithmetic sees it: the weekday of its
\* January 1st (0 = Monday), whether it is a leap year and whether the year
\* before it is one. Days are counted from January 1st of the year (0).
Years ==
    {y \in [jan1 : 0..6, leap : BOOLEAN, prevLeap : BOOLEAN] :
        ~(y.leap /\ y.prevLeap)}

\* The number of ISO weeks of the year (the domain of %V).
IsoWeeks(y) == IF y.jan1 = 3 \/ (y.leap /\ y.jan1 = 2) THEN 53 ELSE 52

\* datetime.strptime(f'{year}-W{week:02d}-1', '%G-W%V-%u'): the Monday of
\* the ISO week, whose week 1 holds January 4th.
IsoMonday(y, week) ==
    (IF y.jan1 <= 3 THEN 0 - y.jan1 ELSE 7 - y.jan1) + 7 * (week - 1)

\* week_start.year relative to the year asked for, with the weekday of that
\* year's January 1st and week_start counted from it.
WeekStartYear(y, monday) ==
    IF monday >= 0 THEN [year |-> 0, jan1 |-> y.jan1, day |-> monday]
    ELSE LET len == IF y.prevLeap THEN 366 ELSE 365 IN
         [year |-> -1, jan1 |-> (y.jan1 + 7 * 53 - len) % 7,
          day |-> len + monday]

\* The week number the reporter recomputes: weeks since the first Monday of
\* week_start's calendar year.
WeekNumber(start) ==
    LET days_to_first_monday == (7 - start.jan1) % 7
        first_monday == IF start.jan1 # 0 THEN days_to_first_monday ELSE 0
    IN ((start.day - first_monday) \div 7) + 1

\* WeeklyReporter(week_str = "<year>-W<week>"): the window and week_str.
WeeklyReporterInit(y, week) ==
    LET monday == IsoMonday(y, week)
        start == WeekStartYear(y, monday)
    IN [fn |-> "weekly", since |-> monday, until |-> monday + 6 + 1,
        week_str |-> [year |-> start.year, week |-> WeekNumber(start)]]

InitWeekly ==
    /\ args \in {a \in [fn : {"week"}, year : Years, week : 1..53] :
                    a.week <= IsoWeeks(a.year)}
    /\ ret = NoRet
    /\ IdleFetch
    /\ IdleRuns
    /\ IdleRender

\* run_weekly: WeeklyReporter(provider, config, week); the report goes to
\* weekly/<reporter.week_str>.md
ConstructWeeklyReporter ==
    /\ args.fn = "week" /\ ret = NoRet
    /\ ret' = WeeklyReporterInit(args.year, args.week)
    /\ UNCHANGED <<args, fetchVars, runVars, renderVars>>

NextWeekly == ConstructWeeklyReporter \/ Return

SpecWeekly == InitWeekly /\ [][NextWeekly]_vars

\* C15: for every ISO week identifier W, WeeklyReporter(week_str=W) takes
\* the window [Monday of ISO week W, the Monday after) and its week_str,
\* which names the output file, equals W.
C15_WeekStrRoundTrip ==
    ret # NoRet =>
        /\ ret.since = IsoMonday(args.year, args.week)
        /\ ret.until = ret.since + 7
        /\ ret.week_str = [year |-> 0, week |-> args.week]

(***************************************************************************)
(* Backfill (src/scripts/backfill-reports.py)                              *)
(***************************************************************************)
\* Longest backfill range, in days after the earliest date (day 0).
MaxSpan == 4

\* The Monday of the week of day d, when day 0 falls on weekday w0
\* (0 = Monday): d - timedelta(days=d.weekday()). isocalendar() names each
\* Monday's week by a different "YYYY-Www", ordered as the Mondays are, so a
\* week is identified by its Monday.
MondayOf(d, w0) == d - ((d + w0) % 7)

\* generate_date_range
RECURSIVE GenerateDateRange(_, _)
GenerateDateRange(current, end_date) ==
    IF current <= end_date
    THEN <<current>> \o GenerateDateRange(current + 1, end_date)
    ELSE <<>>

RECURSIVE WeekLoop(_, _)
WeekLoop(current, end_date) ==
    IF current <= end_date
    THEN {current} \cup WeekLoop(current + 7, end_date)
    ELSE {}

\* sorted(list(weeks))
RECURSIVE SortedList(_)
SortedList(S) ==
    IF S = {} THEN <<>>
    ELSE LET m == CHOOSE x \in S : \A y \in S : x <= y
         IN <<m>> \o SortedList(S \ {m})

\* Mutant of GenerateWeekRange: the loop starts at start_date itself.
GenerateWeekRangeFromStart(start_date, end_date, w0) ==
    SortedList({MondayOf(d, w0) : d \in WeekLoop(start_date, end_date)})

\* generate_week_range
GenerateWeekRange(start_date, end_date, w0) ==
    SortedList(WeekLoop(MondayOf(start_date, w0), end_date))

\* A run's inputs: today (the earliest date is day 0), the weekday of day
\* 0, the report files on disk, the flags, and whether the run goes past
\* the confirmation (--yes, or "y" typed at the prompt).
BackfillInputs ==
    UNION {UNION {[fn : {"backfill"}, today : {t}, w0 : {w},
                   daily_files : SUBSET (0..t),
                   weekly_files : SUBSET {MondayOf(d, w) : d \in 0..t},
                   daily_only : BOOLEAN, weekly_only : BOOLEAN,
                   dry_run : BOOLEAN, confirmed : BOOLEAN] :
                      w \in 0..6} : t \in 0..MaxSpan}

InitBackfill ==
    /\ args \in BackfillInputs
    /\ ret = NoRet
    /\ IdleFetch
    /\ IdleRuns
    /\ IdleRender

\* Where run() goes after the daily pass (or instead of it).
WeeklyPhase(a, weeks) ==
    IF a.daily_only \/ a.dry_run \/ weeks = <<>> THEN "done" ELSE "weekly"

\* run() up to the first loop iteration: the two lists, the confirmation,
\* and the passes that dry-run or an empty list end at once.
RunBackfill ==
    /\ args.fn = "backfill" /\ ret = NoRet
    /\ LET dates == GenerateDateRange(0, args.today)
           weeks == GenerateWeekRange(0, args.today, args.w0)
           cancelled == ~args.dry_run /\ ~args.confirmed
       IN ret' = [fn |-> "backfill", dates |-> dates, weeks |-> weeks, i |-> 1,
                  invoked_daily |-> <<>>, invoked_weekly |-> <<>>,
                  phase |-> IF cancelled THEN "cancelled"
                            ELSE IF args.weekly_only \/ args.dry_run
                            THEN WeeklyPhase(args, weeks)
                            ELSE "daily"]
    /\ UNCHANGED <<args, fetchVars, runVars, renderVars>>

\* One iteration of backfill_daily's loop: skip an existing file, else run
\* daily-report.py for the date (whatever its outcome).
BackfillDailyStep ==
    /\ ret # NoRet /\ ret.fn = "backfill" /\ ret.phase = "daily"
    /\ LET date == ret.dates[ret.i]
           invoked == IF date \in args.daily_files THEN ret.invoked_daily
                      ELSE Append(ret.invoked_daily, date)
       IN ret' = IF ret.i < Len(ret.dates)
                 THEN [ret EXCEPT !.invoked_daily = invoked, !.i = @ + 1]
                 ELSE [ret EXCEPT !.invoked_daily = invoked, !.i = 1,
                                  !.phase = WeeklyPhase(args, ret.weeks)]
    /\ UNCHANGED <<args, fetchVars, runVars, renderVars>>

\* One iteration of backfill_weekly's loop.
BackfillWeeklyStep ==
    /\ ret # NoRet /\ ret.fn = "backfill" /\ ret.phase = "weekly"
    /\ LET week == ret.weeks[ret.i]
           invoked == IF week \in args.weekly_files THEN ret.invoked_weekly
                      ELSE Append(ret.invoked_weekly, week)
       IN ret' = IF ret.i < Len(ret.weeks)
                 THEN [ret EXCEPT !.invoked_weekly = invoked, !.i = @ + 1]
                 ELSE [ret EXCEPT !.invoked_weekly = invoked, !.phase = "done"]
    /\ UNCHANGED <<args, fetchVars, runVars, renderVars>>

NextBackfill == RunBackfill \/ BackfillDailyStep \/ BackfillWeeklyStep

SpecBackfill == InitBackfill /\ [][NextBackfill]_vars

\* A sequence without repeats whose elements are exactly S.
OnceEach(seq, S) == SeqToSet(seq) = S /\ Len(seq) = Cardinality(S)

\* C16: a backfill run that has ended lists every calendar date of
\* [earliest, today] and every ISO week meeting it exactly once, has invoked
\* the daily (weekly) reporter exactly once for each listed date (week)
\* whose file did not exist and for no other, none at all in dry-run mode,
\* and only daily (only weekly) ones under --daily-only (--weekly-only).
C16_BackfillOncePerMissingFile ==
    (ret # NoRet /\ ret.phase = "done") =>
        /\ OnceEach(ret.dates, 0..args.today)
        /\ OnceEach(ret.weeks, {MondayOf(d, args.w0) : d \in 0..args.today})
        /\ OnceEach(ret.invoked_daily,
                    IF args.dry_run \/ args.weekly_only THEN {}
                    ELSE (0..args.today) \ args.daily_files)
        /\ OnceEach(ret.invoked_weekly,
                    IF args.dry_run \/ args.daily_only THEN {}
                    ELSE {MondayOf(d, args.w0) : d \in 0..args.today}
                             \ args.weekly_files)

\* C16 witness: a finished run over a range that meets two ISO weeks and
\* starts mid-week, which skipped an existing daily file and invoked both
\* reporters for missing ones.
C16_Witness ==
    /\ ret # NoRet
    /\ ret.phase = "done"
    /\ args.w0 # 0
    /\ Len(ret.weeks) = 2
    /\ args.daily_files # {}
    /\ ret.invoked_daily # <<>>
    /\ Len(ret.invoked_weekly) = 1
    /\ args.weekly_files # {}

(***************************************************************************)
(* The html verb (src/src/main.py run_html, utils/index_generator.py)      *)
(***************************************************************************)
\* Latest minute of the month the clock reaches.
MaxMinute == 2

\* Report stems as numbers: a daily "2025-MM-DD" is MM * 100 + DD, a weekly
\* "YYYY-Www" is YYYY * 100 + ww, a monthly "YYYY-MM" is YYYY * 100 + MM.
DailyStems == {101, 102, 201, 202}
WeeklyStems == {202452, 202501}
MonthlyStems == {202412, 202501}

\* sorted(..., reverse=True)
RECURSIVE SortedDesc(_)
SortedDesc(S) ==
    IF S = {} THEN <<>>
    ELSE LET m == CHOOSE x \in S : \A y \in S : x >= y
         IN <<m>> \o SortedDesc(S \ {m})

\* convert_all_reports: every Markdown report gets its HTML file (the
\* conversion of a readable file does not fail).
ConvertAllReports(d) ==
    [d EXCEPT !.daily_html = @ \cup d.daily_md,
              !.weekly_html = @ \cup d.weekly_md]

\* generate_index: the content written to index.html from the HTML files on
\* disk d at clock time now (in year 2025).
GenerateIndexHtml(d, now) ==
    LET last_year_month == IF now.month = 1 THEN 202412
                           ELSE 202500 + (now.month - 1)
        \* the stems kept out of the sorted listing, in its order
        Kept(stems, prefix) == SortedDesc({x \in stems : x \div 100 = prefix})
    IN [current_year_month |-> 202500 + now.month,
        daily |-> Kept(d.daily_html, now.month),
        weekly |-> Kept(d.weekly_html, 2025),
        monthly |-> IF last_year_month \in d.monthly_html
                    THEN {last_year_month} ELSE {},
        updated |-> now]

\* args is the reports directory and the clock; ret is the content of
\* index.html after each run of the verb so far.
InitHtml ==
    /\ args \in [fn : {"html"},
                 disk : [daily_md : SUBSET DailyStems, daily_html : {{}},
                         weekly_md : SUBSET WeeklyStems, weekly_html : {{}},
                         monthly_html : SUBSET MonthlyStems],
                 now : [month : {1, 2}, minute : {0}]]
    /\ ret = [fn |-> "html", index |-> <<>>]
    /\ IdleFetch
    /\ IdleRuns
    /\ IdleRender

\* run_html
RunHtml ==
    /\ args.fn = "html" /\ Len(ret.index) < 2
    /\ LET d == ConvertAllReports(args.disk)
       IN /\ args' = [args EXCEPT !.disk = d]
          /\ ret' = [ret EXCEPT !.index = Append(@, GenerateIndexHtml(d, args.now))]
    /\ UNCHANGED <<fetchVars, runVars, renderVars>>

\* The clock advances within the month.
Tick ==
    /\ args.fn = "html" /\ args.now.minute < MaxMinute
    /\ args' = [args EXCEPT !.now.minute = @ + 1]
    /\ UNCHANGED <<ret, fetchVars, runVars, renderVars>>

NextHtml == RunHtml \/ Tick

SpecHtml == InitHtml /\ [][NextHtml]_vars

\* C17: two runs of the html verb over an unchanged reports directory, at
\* any two clock times of the same month, write the same index.html.
C17_IndexIdempotent ==
    Len(ret.index) = 2 => ret.index[1] = ret.index[2]

(***************************************************************************)
(* The forms of `since` (analyzers/churn.py, rework.py, hotspot.py pass    *)
(* "N days ago"; the reporters pass "YYYY-MM-DD")                          *)
(***************************************************************************)
\* Strings are sequences of character codes. "2025-01-DD" of day d (day 0
\* is the 1st) and f"{n} days ago".
IsoDate(d) ==
    <<50, 48, 50, 53, 45, 48, 49, 45, 48 + ((d + 1) \div 10), 48 + ((d + 1) % 10)>>
RelativeSince(n) == <<48 + n, 32, 100, 97, 121, 115, 32, 97, 103, 111>>

\* Python's a < b on strings.
RECURSIVE StrLess(_, _)
StrLess(a, b) ==
    IF b = <<>> THEN FALSE
    ELSE IF a = <<>> THEN TRUE
    ELSE IF Head(a) # Head(b) THEN Head(a) < Head(b)
    ELSE StrLess(Tail(a), Tail(b))

\* _format_datetime (github.py and gitlab.py): "T00:00:00Z" is appended to
\* a string that holds no "T".
FormatDatetime(date_str) ==
    IF \E i \in DOMAIN date_str : date_str[i] = 84 THEN date_str
    ELSE date_str \o <<84, 48, 48, 58, 48, 48, 58, 48, 48, 90>>

\* The commits of one branch as the upstream lists them, newest first.
SinceListing(date) ==
    SortByDateDesc([h \in Hashes |-> [hash |-> h, date |-> date[h]]])

\* The loop of _get_commits_single_branch with until=None: the request
\* carries no since, the scan ends at the first commit whose date[:10] is
\* less than since[:10].
RECURSIVE CodeupSince(_, _, _)
CodeupSince(items, i, since) ==
    IF i > Len(items) THEN {}
    ELSE IF StrLess(IsoDate(Day(items[i].date)),
                    SubSeq(since, 1, Min(10, Len(since))))
    THEN {}
    ELSE {items[i].hash} \cup CodeupSince(items, i + 1, since)

\* GitHub / GitLab: the upstream filters by the since parameter when it is a
\* timestamp; what it does with any other text is its own choice: it
\* answers an error (the provider returns []) or ignores the parameter.
HostedSince(items, since, lenient) ==
    LET param == FormatDatetime(since)
        parsed == {d \in Days : param = FormatDatetime(IsoDate(d))}
    IN {items[i].hash : i \in
           {j \in DOMAIN items :
               IF parsed # {}
               THEN \E d \in parsed : items[j].date >= DayStart(d)
               ELSE lenient}}

\* git log --since=<text> at time now: a date is its midnight, "n days ago"
\* is n days before now.
LocalSince(items, since, now) ==
    LET from == IF \E d \in Days : since = IsoDate(d)
                THEN DayStart(CHOOSE d \in Days : since = IsoDate(d))
                ELSE now - SlotsPerDay *
                         (CHOOSE n \in 1..(MaxDay + 1) : since = RelativeSince(n))
    IN {items[i].hash : i \in {j \in DOMAIN items : items[j].date >= from}}

\* One repository, one branch, the clock at the midnight after the last
\* commit day, and a since that every provider is asked to serve.
InitSince ==
    /\ args \in [fn : {"since"}, date : [Hashes -> Instants],
                 now : {DayStart(MaxDay + 1)},
                 since : {IsoDate(d) : d \in Days}
                         \cup {RelativeSince(n) : n \in 1..(MaxDay + 1)}]
    /\ ret = NoRet
    /\ IdleFetch
    /\ IdleRuns
    /\ IdleRender

\* get_commits(repo, since) through each provider.
CallSince ==
    /\ args.fn = "since" /\ ret = NoRet
    /\ \E lenient \in BOOLEAN :
        LET items == SinceListing(args.date)
            hosted == HostedSince(items, args.since, lenient)
        IN ret' = [fn |-> "since",
                   codeup |-> CodeupSince(items, 1, args.since),
                   github |-> hosted, gitlab |-> hosted,
                   local |-> LocalSince(items, args.since, args.now)]
    /\ UNCHANGED <<args, fetchVars, runVars, renderVars>>

NextSince == CallSince \/ Return

SpecSince == InitSince /\ [][NextSince]_vars

\* C18: every provider returns the same set of hashes for the same
\* repository and the same since, be it an ISO date or "N days ago".
C18_SameHashesAnySince ==
    ret # NoRet =>
        /\ ret.codeup = ret.local
        /\ ret.github = ret.local
        /\ ret.gitlab = ret.local

(***************************************************************************)
(* GitLabProvider.get_commits: the files of one listed commit              *)
(***************************************************************************)
\* Largest additions / deletions total of a commit's stats.
MaxLines == 5
\* Most entries of a commit's diff.
MaxDiffFiles == 3

\* The files built for a listed commit. diff is the number of entries of
\* the /diff answer, or -1 when the request failed; every FileChange is
\* [path, added, deleted], path 0 standing for "(unknown)".
GitLabFiles(diff, stats) ==
    IF diff > 0
    THEN [i \in 1..diff |-> [path |-> i,
                             added |-> stats.additions \div diff,
                             deleted |-> stats.deletions \div diff]]
    ELSE <<[path |-> 0, added |-> stats.additions, deleted |-> stats.deletions]>>

\* CommitInfo.lines_added and lines_deleted: sum(f.added for f in files).
RECURSIVE SumLines(_, _)
SumLines(files, field) ==
    IF files = <<>> THEN 0
    ELSE (IF field = "added" THEN Head(files).added ELSE Head(files).deleted)
             + SumLines(Tail(files), field)

InitGitLab ==
    /\ args \in [fn : {"gitlab"}, diff : -1..MaxDiffFiles,
                 stats : [additions : 0..MaxLines, deletions : 0..MaxLines]]
    /\ ret = NoRet
    /\ IdleFetch
    /\ IdleRuns
    /\ IdleRender

\* One iteration of the loop of get_commits.
EmitGitLabCommit ==
    /\ args.fn = "gitlab" /\ ret = NoRet
    /\ ret' = [fn |-> "gitlab", files |-> GitLabFiles(args.diff, args.stats)]
    /\ UNCHANGED <<args, fetchVars, runVars, renderVars>>

NextGitLab == EmitGitLabCommit \/ Return

SpecGitLab == InitGitLab /\ [][NextGitLab]_vars

\* C19: the added lines of an emitted commit's files sum to the additions
\* total the upstream reports for the commit, and the deleted lines to the
\* deletions total, for every total and every number of files.
C19_FilesSumToTotals ==
    ret # NoRet =>
        /\ SumLines(ret.files, "added") = args.stats.additions
        /\ SumLines(ret.files, "deleted") = args.stats.deletions

(***************************************************************************)
(* CodeupProvider._parse_commit: the four sources of a commit's file list  *)
(***************************************************************************)
\* What the upstream holds for one commit: whether the detail request is
\* answered, the entries (with a path) of its diffs field, of the
\* commits/{id}/diff answer and of the compare answer (-1: the request
\* fails), whether parentIds names a parent, and the stats totals.
CodeupAnswers ==
    [fn : {"codeup"}, detail : BOOLEAN, diffs : 0..MaxDiffFiles,
     diff : -1..MaxDiffFiles, parent : BOOLEAN, compare : -1..MaxDiffFiles,
     stats : [additions : 0..MaxLines, deletions : 0..MaxLines]]

\* The FileChange entries built from n diff entries by method k.
DiffFiles(n, k) == [i \in 1..n |-> [path |-> i, method |-> k]]

\* Method 4, taken when files is still empty: the stats totals as one
\* "(unknown)" file (path 0), if one of them is not zero.
StatsFiles(files, stats) ==
    IF files = <<>> /\ (stats.additions # 0 \/ stats.deletions # 0)
    THEN <<[path |-> 0, method |-> 4, added |-> stats.additions,
            deleted |-> stats.deletions]>>
    ELSE files

InitCodeup ==
    /\ args \in CodeupAnswers
    /\ ret = NoRet
    /\ IdleFetch
    /\ IdleRuns
    /\ IdleRender

\* _parse_commit up to its second request: the detail request and method 1.
RequestDetail ==
    /\ args.fn = "codeup" /\ ret = NoRet
    /\ LET files == IF args.detail THEN DiffFiles(args.diffs, 1) ELSE <<>>
       IN ret' = [fn |-> "codeup", requests |-> <<"detail">>, files |-> files,
                  pc |-> IF args.detail /\ files = <<>> THEN "diff" ELSE "done"]
    /\ UNCHANGED <<args, fetchVars, runVars, renderVars>>

\* Method 2, and the rest of _parse_commit when no compare request follows.
RequestDiff ==
    /\ ret # NoRet /\ ret.fn = "codeup" /\ ret.pc = "diff"
    /\ LET files == DiffFiles(IF args.diff > 0 THEN args.diff ELSE 0, 2)
           more == files = <<>> /\ args.parent
       IN ret' = [ret EXCEPT !.requests = Append(@, "diff"),
                             !.files = IF more THEN files
                                       ELSE StatsFiles(files, args.stats),
                             !.pc = IF more THEN "compare" ELSE "done"]
    /\ UNCHANGED <<args, fetchVars, runVars, renderVars>>

\* Method 3, and the rest of _parse_commit.
RequestCompare ==
    /\ ret # NoRet /\ ret.fn = "codeup" /\ ret.pc = "compare"
    /\ LET files == DiffFiles(IF args.compare > 0 THEN args.compare ELSE 0, 3)
       IN ret' = [ret EXCEPT !.requests = Append(@, "compare"),
                             !.files = StatsFiles(files, args.stats),
                             !.pc = "done"]
    /\ UNCHANGED <<args, fetchVars, runVars, renderVars>>

NextCodeup == RequestDetail \/ RequestDiff \/ RequestCompare

SpecCodeup == InitCodeup /\ [][NextCodeup]_vars

\* C20: the requests of _parse_commit go out in the order detail, diff,
\* compare, each later one only after the earlier methods gave no file; the
\* files of a parsed commit all come from one method; and a commit for which
\* methods 1 to 3 gave no file carries exactly the one "(unknown)" file
\* with the stats totals.
C20_FallbacksInOrder ==
    (ret # NoRet /\ ret.pc = "done") =>
        /\ ret.requests \in {<<"detail">>, <<"detail", "diff">>,
                             <<"detail", "diff", "compare">>}
        /\ Len(ret.requests) >= 2 => args.diffs = 0
        /\ Len(ret.requests) = 3 => args.diff <= 0
        /\ \A i, j \in DOMAIN ret.files : ret.files[i].method = ret.files[j].method
        /\ (\A i \in DOMAIN ret.files : ret.files[i].method = 4) =>
               ret.files = <<[path |-> 0, method |-> 4,
                              added |-> args.stats.additions,
                              deleted |-> args.stats.deletions]>>

(***************************************************************************)
(* Work-time classes (utils/helpers.py) and the reports' counters          *)
(***************************************************************************)
\* "HH:MM" settings and commit times are [hour, minute].
\* is_late_night: only the hours of the two settings are read.
IsLateNight(time, config) ==
    LET late_start == config.late_night_start.hour
        late_end == config.late_night_end.hour
    IN IF late_start > late_end
       THEN time.hour >= late_start \/ time.hour < late_end
       ELSE late_start <= time.hour /\ time.hour < late_end

\* is_weekend: weekday() >= 5
IsWeekend(time) == time.weekday >= 5

\* is_overtime, with the default 18:00-21:00.
IsOvertime(time) ==
    18 * 60 <= time.hour * 60 + time.minute /\ time.hour * 60 + time.minute < 21 * 60

\* The counters a report shows for a commit list holding the one commit c:
\* daily._generate_risk_alerts, weekly._generate_risk_analysis (which
\* keeps no overtime counter) and monthly._generate_health_trend.
WorkTimeCounters(reporter, c, config) ==
    LET One(b) == IF b THEN 1 ELSE 0 IN
    CASE reporter = "daily" ->
             [late_night |-> One(IsLateNight(c, config)),
              weekend |-> One(IsWeekend(c)), overtime |-> One(IsOvertime(c))]
      [] reporter = "weekly" ->
             [late_night |-> One(c.hour < 6 \/ c.hour >= 22),
              weekend |-> One(IsWeekend(c)), overtime |-> 0]
      [] OTHER ->
             IF IsWeekend(c)
             THEN [late_night |-> 0, weekend |-> 1, overtime |-> 0]
             ELSE IF IsLateNight(c, config)
             THEN [late_night |-> 1, weekend |-> 0, overtime |-> 0]
             ELSE [late_night |-> 0, weekend |-> 0, overtime |-> One(c.hour >= 18)]

InitWorkTime ==
    /\ args \in [fn : {"worktime"},
                 commit : [hour : 0..23, minute : {15, 30}, weekday : {4, 5}],
                 config : [late_night_start : [hour : {21, 22}, minute : {0}],
                           late_night_end : [hour : {5, 6}, minute : {0}]]]
    /\ ret = NoRet
    /\ IdleFetch
    /\ IdleRuns
    /\ IdleRender

\* A reporter renders its work-time section.
RenderWorkTime ==
    /\ args.fn = "worktime" /\ ret = NoRet
    /\ \E reporter \in {"daily", "weekly", "monthly"} :
        ret' = [fn |-> "worktime", report |-> reporter,
                counters |-> WorkTimeCounters(reporter, args.commit, args.config)]
    /\ UNCHANGED <<args, fetchVars, runVars, renderVars>>

NextWorkTime == RenderWorkTime \/ Return

SpecWorkTime == InitWorkTime /\ [][NextWorkTime]_vars

\* C21: in the daily, weekly and monthly report a commit made on a weekend
\* inside the late-night window 22:00-06:00 counts once as late-night, once
\* as weekend, and not as overtime.
C21_ClassesIndependent ==
    (/\ ret # NoRet
     /\ args.commit.weekday >= 5
     /\ args.commit.hour >= 22 \/ args.commit.hour < 5) =>
        ret.counters = [late_night |-> 1, weekend |-> 1, overtime |-> 0]

\* C22: every report counts a commit as late-night exactly when its time
\* lies in [late_night_start, late_night_end) taken modulo 24 hours.
C22_LateNightIsWindow ==
    LET Minutes(t) == t.hour * 60 + t.minute
        start == Minutes(args.config.late_night_start)
        InWindow == (Minutes(args.commit) - start) % 1440
                        < (Minutes(args.config.late_night_end) - start) % 1440
    IN ret # NoRet => (ret.counters.late_night = 1 <=> InWindow)

(***************************************************************************)
(* ReworkAnalyzer (src/src/analyzers/rework.py)                            *)
(***************************************************************************)
\* Most changes of one file inside the add window.
MaxChanges == 3

\* changes.sort(key=date): stable, ascending.
RECURSIVE SortChanges(_)
SortChanges(changes) ==
    IF changes = <<>> THEN <<>>
    ELSE LET first == CHOOSE i \in DOMAIN changes :
                          /\ \A j \in DOMAIN changes : changes[i].date <= changes[j].date
                          /\ \A j \in 1..(i - 1) : changes[j].date # changes[i].date
         IN <<changes[first]>>
                \o SortChanges(SubSeq(changes, 1, first - 1)
                                   \o SubSeq(changes, first + 1, Len(changes)))

\* The two nested loops of analyze over one file's sorted changes, from the
\* pair (i, j) on: min(added, deleted) for every later change at most
\* delete_days days after change i.
RECURSIVE ReworkLines(_, _, _, _)
ReworkLines(changes, i, j, delete_days) ==
    IF i > Len(changes) THEN 0
    ELSE IF j > Len(changes) THEN ReworkLines(changes, i + 1, i + 2, delete_days)
    ELSE (IF changes[j].date - changes[i].date <= delete_days
          THEN Min(changes[i].added, changes[j].deleted) ELSE 0)
             + ReworkLines(changes, i, j + 1, delete_days)

\* analyze, and the rework_rate / rework_lines that _analyze_repo hands on
\* unchanged: the rate is kept as the whole percents below it.
ReworkAnalyze(changes, delete_days) ==
    LET sorted == SortChanges(changes)
        rework_lines == ReworkLines(sorted, 1, 2, delete_days)
        total_added == SumLines(sorted, "added")
    IN [fn |-> "rework", rework_lines |-> rework_lines, total_added |-> total_added,
        rework_rate |-> IF total_added > 0
                        THEN (rework_lines * 100) \div total_added ELSE 0]

\* One file's changes, as the commits list them, dated in days.
InitRework ==
    /\ args \in [fn : {"rework"}, delete_days : {1, 3},
                 changes : UNION {[1..n -> [date : 0..2, added : {0, 2},
                                            deleted : {0, 1, 2}]] :
                                      n \in 0..MaxChanges}]
    /\ ret = NoRet
    /\ IdleFetch
    /\ IdleRuns
    /\ IdleRender

CallReworkAnalyze ==
    /\ args.fn = "rework" /\ ret = NoRet
    /\ ret' = ReworkAnalyze(args.changes, args.delete_days)
    /\ UNCHANGED <<args, fetchVars, runVars, renderVars>>

NextRework == CallReworkAnalyze \/ Return

SpecRework == InitRework /\ [][NextRework]_vars

\* C23: the rework rate handed on for display and scoring never exceeds 100.
C23_ReworkRateAtMost100 ==
    ret # NoRet => ret.rework_rate <= 100

(***************************************************************************)
(* HotspotAnalyzer (src/src/analyzers/hotspot.py)                          *)
(***************************************************************************)
\* Most files modified inside the analysis window.
MaxHotFiles == 3

\* _should_exclude, for a path made of a directory and an extension: a
\* directory pattern matches when the path holds it, a "*.ext" pattern
\* when the path ends with ".ext".
ShouldExclude(f, config) ==
    f.dir \in config.exclude_dirs \/ f.ext \in config.exclude_patterns

\* _calculate_risk_score in hundredths. The file sizes drawn are even, so
\* the weighted sum has two decimals and round(risk, 2) leaves it as it is.
CalculateRiskScore(modify_count, file_size, author_count) ==
    Min(modify_count * 10, 100) * 30
        + (Min(file_size, 1000) * 25) \div 10
        + Min(author_count * 20, 100) * 20

\* Mutant of SortByRisk: the list is left in the order of the files.
KeepOrder(hotspots) == hotspots

\* hotspots.sort(key=risk_score, reverse=True): stable, descending.
RECURSIVE SortByRisk(_)
SortByRisk(hotspots) ==
    IF hotspots = <<>> THEN <<>>
    ELSE LET first == CHOOSE i \in DOMAIN hotspots :
                 /\ \A j \in DOMAIN hotspots :
                        hotspots[i].risk_score >= hotspots[j].risk_score
                 /\ \A j \in 1..(i - 1) :
                        hotspots[j].risk_score # hotspots[i].risk_score
         IN <<hotspots[first]>>
                \o SortByRisk(SubSeq(hotspots, 1, first - 1)
                                  \o SubSeq(hotspots, first + 1, Len(hotspots)))

\* The loop of analyze from file i on, and analyze itself. The file at
\* index i of the modified files is named i.
RECURSIVE HotspotLoop(_, _, _)
HotspotLoop(files, i, config) ==
    IF i > Len(files) THEN <<>>
    ELSE LET f == files[i]
             risk_score == CalculateRiskScore(f.modify_count, f.file_size,
                                              f.author_count)
         IN (IF ~ShouldExclude(f, config) /\ risk_score > 4000
             THEN <<[file |-> i, risk_score |-> risk_score]>> ELSE <<>>)
                \o HotspotLoop(files, i + 1, config)

HotspotAnalyze(files, config) == SortByRisk(HotspotLoop(files, 1, config))

InitHotspot ==
    /\ args \in [fn : {"hotspot"},
                 config : [exclude_dirs : SUBSET {"node_modules"},
                           exclude_patterns : SUBSET {"lock"}],
                 files : UNION {[1..n ->
                     {f \in [dir : {"src", "node_modules"}, ext : {"py", "lock"},
                             modify_count : {0, 10}, file_size : {0, 400, 402, 1000},
                             author_count : {0, 5}] :
                          /\ f.author_count = 5 <=> f.file_size = 1000
                          /\ f.modify_count = 0 <=> f.file_size = 0}] :
                              n \in 0..MaxHotFiles}]
    /\ ret = NoRet
    /\ IdleFetch
    /\ IdleRuns
    /\ IdleRender

CallHotspotAnalyze ==
    /\ args.fn = "hotspot" /\ ret = NoRet
    /\ ret' = [fn |-> "hotspot", hotspots |-> HotspotAnalyze(args.files, args.config)]
    /\ UNCHANGED <<args, fetchVars, runVars, renderVars>>

NextHotspot == CallHotspotAnalyze \/ Return

SpecHotspot == InitHotspot /\ [][NextHotspot]_vars

\* C24: analyze returns each modified file that is not excluded and whose
\* risk score is above 40 exactly once with that score, returns no other
\* file, and lists them by risk score, highest first.
C24_HotspotFilterSorted ==
    ret # NoRet =>
        LET out == ret.hotspots
            Score(i) == CalculateRiskScore(args.files[i].modify_count,
                                           args.files[i].file_size,
                                           args.files[i].author_count)
            wanted == {i \in DOMAIN args.files :
                          /\ ~ShouldExclude(args.files[i], args.config)
                          /\ Score(i) > 4000}
        IN /\ {out[k].file : k \in DOMAIN out} = wanted
           /\ Len(out) = Cardinality(wanted)
           /\ \A k \in DOMAIN out : out[k].risk_score = Score(out[k].file)
           /\ \A k \in 1..(Len(out) - 1) : out[k].risk_score >= out[k + 1].risk_score

\* C24 witness: a file of score 40.05 is returned after a later file of
\* score 75, while an excluded file of score 75 is not returned.
C24_Witness ==
    /\ ret # NoRet
    /\ Len(ret.hotspots) = 2
    /\ ret.hotspots[1].file > ret.hotspots[2].file
    /\ ret.hotspots[2].risk_score = 4005
    /\ \E i \in DOMAIN args.files :
           /\ ShouldExclude(args.files[i], args.config)
           /\ args.files[i].file_size = 1000

(***************************************************************************)
(* A run's outbound operations and their time limits                       *)
(* (providers/generic_git.py subprocess.run, providers/*.py urlopen,       *)
(* reporters/base.py get_all_commits)                                      *)
(***************************************************************************)
\* The outbound operations of one repository's fetch, in order: for the
\* local provider git clone, git fetch --unshallow and git log; for an
\* HTTP provider three requests.
Operations == 1..3

\* args.hangs are the operations the upstream never answers. ret is the
\* run: the repository and operation in flight.
InitDeadline ==
    /\ args \in [fn : {"deadline"}, provider : {"local", "http"},
                 hangs : SUBSET (Repos \X Operations)]
    /\ ret = NoRet
    /\ IdleFetch
    /\ IdleRuns
    /\ IdleRender

\* get_all_commits enters its loop: the first operation goes out.
BeginFetches ==
    /\ args.fn = "deadline" /\ ret = NoRet
    /\ ret' = [fn |-> "deadline", pc |-> "waiting", repo |-> 1, op |-> 1]
    /\ UNCHANGED <<args, fetchVars, runVars, renderVars>>

\* The run after the operation in flight has ended: the next operation of
\* the repository, the next repository, or the report.
AfterOperation(r) ==
    IF r.op < 3 THEN [r EXCEPT !.op = @ + 1]
    ELSE IF r.repo < NumRepos THEN [r EXCEPT !.repo = @ + 1, !.op = 1]
    ELSE [r EXCEPT !.pc = "report"]

\* The upstream answers (with data or with an error).
OperationReturns ==
    /\ ret # NoRet /\ ret.fn = "deadline" /\ ret.pc = "waiting"
    /\ <<ret.repo, ret.op>> \notin args.hangs
    /\ ret' = AfterOperation(ret)
    /\ UNCHANGED <<args, fetchVars, runVars, renderVars>>

\* urlopen(request, timeout=30) gives up on a silent upstream. The
\* subprocess.run calls of the local provider carry no timeout.
OperationTimesOut ==
    /\ ret # NoRet /\ ret.fn = "deadline" /\ ret.pc = "waiting"
    /\ args.provider = "http"
    /\ <<ret.repo, ret.op>> \in args.hangs
    /\ ret' = AfterOperation(ret)
    /\ UNCHANGED <<args, fetchVars, runVars, renderVars>>

\* The reporter renders and the run ends.
EmitReport ==
    /\ ret # NoRet /\ ret.fn = "deadline" /\ ret.pc = "report"
    /\ ret' = [ret EXCEPT !.pc = "done"]
    /\ UNCHANGED <<args, fetchVars, runVars, renderVars>>

NextDeadline == BeginFetches \/ OperationReturns \/ OperationTimesOut \/ EmitReport

\* The process keeps running: a step that can be taken is taken.
SpecDeadline == InitDeadline /\ [][NextDeadline]_vars /\ WF_vars(NextDeadline)

\* C25: every run eventually ends with its report emitted, also when the
\* upstream never answers some operation.
C25_RunTerminates == <>(ret # NoRet /\ ret.pc = "done")

(***************************************************************************)
(* The pagination loops of the HTTP providers                              *)
(***************************************************************************)
\* Page cap of CodeupProvider.list_branches.
MaxBranchPages == 5

\* What _api_request can give for a page: None after an error, a JSON
\* object, or a list of len items; old tells that a full page holds a
\* commit dated before `since` (read by Codeup's commit loop only).
PageAnswers ==
    {[kind |-> "none", len |-> 0, old |-> FALSE],
     [kind |-> "object", len |-> 1, old |-> FALSE]}
    \cup [kind : {"list"}, len : {0, 99}, old : {FALSE}]
    \cup [kind : {"list"}, len : {100}, old : BOOLEAN]

\* Mutant of ShortPage: no page counts as short.
NoShortPage(data) == FALSE

\* if len(data) < 100: break
ShortPage(data) == data.len < 100

\* The loops: _api_request_list of github.py and gitlab.py,
\* _get_commits_single_branch and list_branches of codeup.py.
PagingLoops == {"github", "gitlab", "codeup_commits", "codeup_branches"}

InitPaging ==
    /\ args \in [fn : {"paging"}, loop : PagingLoops]
    /\ ret = NoRet
    /\ IdleFetch
    /\ IdleRuns
    /\ IdleRender

\* The loop is entered with page = 1; ret.answers are the pages got so far.
EnterLoop ==
    /\ args.fn = "paging" /\ ret = NoRet
    /\ ret' = [fn |-> "paging", pc |-> "loop", answers |-> <<>>]
    /\ UNCHANGED <<args, fetchVars, runVars, renderVars>>

\* One iteration: the request of page Len(answers) + 1 and the tests after
\* it, whatever the upstream answers.
RequestPage ==
    /\ ret # NoRet /\ ret.fn = "paging" /\ ret.pc = "loop"
    /\ \E data \in PageAnswers :
        LET page == Len(ret.answers) + 1
            stop == \/ data.kind # "list" \/ data.len = 0
                    \/ args.loop = "codeup_commits" /\ data.old
                    \/ ShortPage(data)
                    \/ page + 1 > (IF args.loop = "codeup_branches"
                                   THEN MaxBranchPages ELSE MaxPages)
        IN ret' = [ret EXCEPT !.answers = Append(@, data),
                              !.pc = IF stop THEN "done" ELSE "loop"]
    /\ UNCHANGED <<args, fetchVars, runVars, renderVars>>

NextPaging == EnterLoop \/ RequestPage

SpecPaging == InitPaging /\ [][NextPaging]_vars

\* C26: a pagination loop never requests more than 10 pages (5 for the
\* Codeup branch listing), and requests no page after one that failed, was
\* not a list, was empty or held fewer than 100 items.
C26_PagingBounded ==
    (ret # NoRet /\ ret.fn = "paging") =>
        /\ Len(ret.answers) <= (IF args.loop = "codeup_branches" THEN 5 ELSE 10)
        /\ \A p \in 1..(Len(ret.answers) - 1) :
               ret.answers[p].kind = "list" /\ ret.answers[p].len >= 100
        /\ (ret.pc = "loop" /\ ret.answers # <<>>) =>
               LET last == ret.answers[Len(ret.answers)]
               IN last.kind = "list" /\ last.len >= 100

\* C26 witness: the upstream answered ten full pages and the loop is over.
C26_Witness ==
    /\ ret # NoRet /\ ret.fn = "paging"
    /\ ret.pc = "done"
    /\ Len(ret.answers) = 10
    /\ \A p \in 1..10 : ret.answers[p].len = 100 /\ ~ret.answers[p].old

(***************************************************************************)
(* GenericGitProvider._parse_git_log                                       *)
(***************************************************************************)
\* Most lines of a git log output.
MaxLogLines == 5

\* The loop of _parse_git_log from line i on. A line is a "header"
\* (hash|author|email|date|message), a "numstat" line (2<TAB>1<TAB>path), a
\* "binary" numstat line (-<TAB>-<TAB>path) or "blank"; the commit of the
\* header at line i has hash i, the file of the numstat line j has path j.
\* current is the hash of current_commit, 0 for None.
RECURSIVE ParseLines(_, _, _, _, _)
ParseLines(lines, i, parsed, current, files) ==
    LET closed == IF current # 0
                  THEN Append(parsed, [hash |-> current, files |-> files])
                  ELSE parsed
    IN IF i > Len(lines) THEN closed
       ELSE IF lines[i] = "blank" THEN ParseLines(lines, i + 1, closed, 0, <<>>)
       ELSE IF lines[i] = "header" /\ current = 0
       THEN ParseLines(lines, i + 1, parsed, i, <<>>)
       ELSE IF lines[i] \in {"numstat", "binary"} /\ current # 0
       THEN ParseLines(lines, i + 1, parsed, current,
                Append(files, [path |-> i,
                               added |-> IF lines[i] = "binary" THEN 0 ELSE 2,
                               deleted |-> IF lines[i] = "binary" THEN 0 ELSE 1]))
       ELSE ParseLines(lines, i + 1, parsed, current, files)

InitGitLog ==
    /\ args \in [fn : {"git_log"},
                 lines : UNION {[1..n -> {"header", "numstat", "binary", "blank"}] :
                                    n \in 0..MaxLogLines}]
    /\ ret = NoRet
    /\ IdleFetch
    /\ IdleRuns
    /\ IdleRender

\* _parse_git_log(output)
ParseGitLog ==
    /\ args.fn = "git_log" /\ ret = NoRet
    /\ ret' = [fn |-> "git_log", commits |-> ParseLines(args.lines, 1, <<>>, 0, <<>>)]
    /\ UNCHANGED <<args, fetchVars, runVars, renderVars>>

NextGitLog == ParseGitLog \/ Return

SpecGitLog == InitGitLog /\ [][NextGitLog]_vars

\* C27: the parser yields one commit per header line, in the order of the
\* headers, each carrying exactly the numstat lines between its header and
\* the next header, a "-" count read as 0.
C27_OneCommitPerHeader ==
    ret # NoRet =>
        LET lines == args.lines
            out == ret.commits
            headers == {i \in DOMAIN lines : lines[i] = "header"}
            Own(h) == {j \in DOMAIN lines :
                          /\ lines[j] \in {"numstat", "binary"}
                          /\ j > h
                          /\ \A g \in headers : g > h => j < g}
        IN /\ Len(out) = Cardinality(headers)
           /\ {out[k].hash : k \in DOMAIN out} = headers
           /\ \A k \in 1..(Len(out) - 1) : out[k].hash < out[k + 1].hash
           /\ \A k \in DOMAIN out :
                  /\ {out[k].files[n].path : n \in DOMAIN out[k].files} = Own(out[k].hash)
                  /\ Len(out[k].files) = Cardinality(Own(out[k].hash))
                  /\ \A n \in DOMAIN out[k].files :
                         out[k].files[n].added
                             = (IF lines[out[k].files[n].path] = "binary" THEN 0 ELSE 2)

(***************************************************************************)
(* One GenericGitProvider: its clone cache between construction and        *)
(* cleanup()                                                               *)
(***************************************************************************)
\* cleanup() calls of one provider object.
MaxCleanups == 2

\* Mutant of CachedClone: the cache is not consulted.
CloneAlways(repo, cloned, d, ok) == CloneRepo(1, repo, {}, d, ok)

\* _clone_repo as the provider's methods call it (the provider is run 1).
CachedClone(repo, cloned, d, ok) == CloneRepo(1, repo, cloned, d, ok)

\* args.stale are the paths an earlier process left under temp_dir.
InitClone ==
    /\ args \in [fn : {"clone"}, stale : SUBSET Repos]
    /\ ret = NoRet
    /\ IdleFetch
    /\ IdleRuns
    /\ IdleRender

\* GenericGitProvider(...): the cache starts empty. clones counts the git
\* clone runs that succeeded since construction or the last cleanup().
Construct ==
    /\ args.fn = "clone" /\ ret = NoRet
    /\ ret' = [fn |-> "clone", cloned_repos |-> {},
               disk |-> [repo \in Repos |-> IF repo \in args.stale THEN 2 ELSE 0],
               clones |-> [repo \in Repos |-> 0], cleanups |-> 0,
               last |-> [method |-> "init", repo |-> 0, raised |-> FALSE]]
    /\ UNCHANGED <<args, fetchVars, runVars, renderVars>>

\* get_commits, get_file_content or get_file_history (which calls
\* get_commits) for a repository: _clone_repo, then a git command.
ProviderCall ==
    /\ ret # NoRet /\ ret.fn = "clone"
    /\ \E repo \in Repos, ok \in BOOLEAN,
          method \in {"get_commits", "get_file_content", "get_file_history"} :
        /\ ret.clones[repo] < 2
        /\ LET c == CachedClone(repo, ret.cloned_repos, ret.disk, ok)
           IN ret' = [ret EXCEPT
                         !.cloned_repos = @ \cup c.cloned,
                         !.disk = c.disk,
                         !.clones[repo] = @ + c.clones,
                         !.last = [method |-> method, repo |-> repo,
                                   raised |-> c.raised]]
    /\ UNCHANGED <<args, fetchVars, runVars, renderVars>>

\* cleanup()
CallCleanup ==
    /\ ret # NoRet /\ ret.fn = "clone" /\ ret.cleanups < MaxCleanups
    /\ LET c == Cleanup("local", ret.disk)
       IN ret' = [ret EXCEPT !.cloned_repos = c.cloned, !.disk = c.disk,
                             !.clones = [repo \in Repos |-> 0],
                             !.cleanups = @ + 1,
                             !.last = [method |-> "cleanup", repo |-> 0,
                                       raised |-> FALSE]]
    /\ UNCHANGED <<args, fetchVars, runVars, renderVars>>

NextClone == Construct \/ ProviderCall \/ CallCleanup

SpecClone == InitClone /\ [][NextClone]_vars

\* C28: between construction and cleanup() no repository is cloned twice,
\* every cached path is a working copy of this provider on disk, a failed
\* clone leaves the repository out of the cache, and after cleanup() the
\* cache is empty.
C28_CloneCacheSound ==
    (ret # NoRet /\ ret.fn = "clone") =>
        /\ \A repo \in Repos : ret.clones[repo] <= 1
        /\ \A repo \in ret.cloned_repos : ret.disk[repo] = 1
        /\ ret.last.raised => ret.last.repo \notin ret.cloned_repos
        /\ ret.last.method = "cleanup" => ret.cloned_repos = {}

\* C28 witness: after a cleanup() a repository is cloned again and a later
\* call for it is served from the cache, while the clone of the other
\* repository has just failed.
C28_Witness ==
    /\ ret # NoRet /\ ret.fn = "clone"
    /\ ret.cleanups = 1
    /\ ret.cloned_repos = {1}
    /\ ret.clones[1] = 1
    /\ ret.last.repo = 2 /\ ret.last.raised

(***************************************************************************)
(* Configuration loading (src/src/config.py)                               *)
(***************************************************************************)
\* The process environment and the YAML file: GIT_TOKEN (0: unset),
\* whether REPOSITORIES is set, and whether the file has a git section / a
\* non-empty repositories list.
ConfigEnvs ==
    [fn : {"config"}, GIT_TOKEN : 0..2, REPOSITORIES : BOOLEAN,
     yaml_git : BOOLEAN, yaml_repositories : BOOLEAN]

\* The objects on the heap: defaults is what DEFAULT_CONFIG['git']['token']
\* (0: '') and DEFAULT_CONFIG['repositories'] (its length) hold; config is
\* the dict of the last load, each of its two entries being the default's
\* object itself ("default") or an object of its own ("own") with its value.
InitConfig ==
    /\ args \in ConfigEnvs
    /\ ret = [fn |-> "config",
              defaults |-> [token |-> 0, repositories |-> 0],
              config |-> [git |-> "none", token |-> 0,
                          repositories |-> "none", length |-> 0]]
    /\ IdleFetch
    /\ IdleRuns
    /\ IdleRender

\* The environment or the file changes between two calls.
SetEnv ==
    /\ args.fn = "config"
    /\ \E e \in ConfigEnvs : e # args /\ args' = e
    /\ UNCHANGED <<ret, fetchVars, runVars, renderVars>>

\* load_config (and Config(...)): DEFAULT_CONFIG.copy() copies the top
\* level only; _deep_merge builds a new dict for a section the file has and
\* takes the file's list; _set_nested_value then writes GIT_TOKEN into the
\* git dict the config refers to.
LoadConfig ==
    /\ args.fn = "config"
    /\ LET git == IF args.yaml_git THEN "own" ELSE "default"
           set == args.GIT_TOKEN # 0
       IN ret' = [ret EXCEPT
              !.defaults.token = IF set /\ git = "default" THEN args.GIT_TOKEN ELSE @,
              !.config = [git |-> git,
                          token |-> IF git = "default" THEN 0
                                    ELSE IF set THEN args.GIT_TOKEN
                                    ELSE ret.defaults.token,
                          repositories |-> IF args.yaml_repositories THEN "own"
                                           ELSE "default",
                          length |-> IF args.yaml_repositories THEN 1 ELSE 0]]
    /\ UNCHANGED <<args, fetchVars, runVars, renderVars>>

\* get_repositories(config) / Config.repositories: an empty list gets the
\* entry parsed from REPOSITORIES appended in place.
GetRepositories ==
    /\ args.fn = "config" /\ ret.config.repositories # "none"
    /\ LET own == ret.config.repositories = "own"
           empty == IF own THEN ret.config.length = 0
                    ELSE ret.defaults.repositories = 0
           add == IF empty /\ args.REPOSITORIES THEN 1 ELSE 0
       IN ret' = [ret EXCEPT
              !.defaults.repositories = IF own THEN @ ELSE @ + add,
              !.config.length = IF own THEN @ + add ELSE @]
    /\ UNCHANGED <<args, fetchVars, runVars, renderVars>>

NextConfig == SetEnv \/ LoadConfig \/ GetRepositories

SpecConfig == InitConfig /\ [][NextConfig]_vars

\* C29: whatever is loaded and read, DEFAULT_CONFIG keeps its values: the
\* git token stays '' and the repositories list stays empty.
C29_DefaultsUnchanged ==
    args.fn = "config" => ret.defaults = [token |-> 0, repositories |-> 0]

====
